---- MODULE Spec2Model ----
(***************************************************************************)
(* Verification model of firebase-admin-cloudflare's Firestore client:     *)
(*   - Firestore.runTransaction / Transaction   (retrying transactions)    *)
(*   - BulkWriter                               (queued best-effort writes)*)
(*   - listenToDocument / listenToQuery / onSnapshot (realtime listeners)  *)
(*   - getGoogleAccessToken                     (cached bearer tokens)     *)
(*   - WriteBatch                               (atomic batched writes)    *)
(* Every handler of the TypeScript source runs to completion between two   *)
(* awaits, so one action of the model is one such run.                     *)
(***************************************************************************)
EXTENDS Integers, Sequences, FiniteSets, TLC

\* ------------------------------------------------------------------------
\* Bounds of the model
\* ------------------------------------------------------------------------
MaxAttemptsOpt == 3      \* largest explicit options.maxAttempts tried
MaxFnSteps == 2          \* calls the update function makes on its handle per run
MaxOps == 2              \* create/set/update/delete calls made on the BulkWriter
MaxFailures == 1         \* failures the REST gateway reports to the BulkWriter
MaxFlushes == 1          \* flush() and close() calls made on the BulkWriter
RetryOps == 1            \* RetrySpec: writes made on the BulkWriter
RetryFailures == 10      \* RetrySpec: failures the REST gateway reports
BulkOps == 22            \* BulkSpec: writes made on the BulkWriter
BulkFailures == 1        \* BulkSpec: failures the REST gateway reports
MaxFrames == 3           \* messages and events the Listen channel delivers
MaxUnsubscribes == 2     \* calls of the function returned by onSnapshot
MaxCallers == 2          \* callers that ask for an access token
MaxTokenCalls == 3       \* getGoogleAccessToken calls made in all
MaxClock == 2            \* minutes the clock advances
MaxBatchWrites == 3      \* create/set/update/delete calls made on the WriteBatch
MaxCommits == 2          \* commit() calls made on the WriteBatch

\* ------------------------------------------------------------------------
\* State
\* ------------------------------------------------------------------------
VARIABLES
    \* --- Firestore.runTransaction ---
    txPc,            \* where runTransaction is: init, begin, fn, get, commit, sleep, resolved, rejected
    txMaxAttempts,   \* const maxAttempts = options.maxAttempts ?? 5
    attempt,         \* let attempt
    lastError,       \* let lastError
    tx,              \* the Transaction handle of the running attempt
    txOutcome,       \* how the promise returned by runTransaction settled
    backoffMs,       \* the delay of the sleep in progress
    \* observations of the calls runTransaction makes
    txBeginCalls,    \* number of rest.beginTransaction() calls
    txFnCalls,       \* number of updateFn(tx) invocations
    txSleeps,        \* number of sleep(backoffMs) calls
    txLastReq,       \* the last request handed to the REST client
    txLastGet,       \* the last tx.get() call and what it did
    txFailures,      \* number of errors caught by runTransaction
    fnSteps,         \* handle calls made by the running invocation of updateFn
    fnWriteCalls,    \* set/create/update/delete calls of the running invocation that returned
    fnWriteThrows,   \* set/create/update calls of the running invocation that threw
    txWritesEver     \* set/create/update/delete calls of all invocations that returned

txVars == <<txPc, txMaxAttempts, attempt, lastError, tx, txOutcome, backoffMs,
            txBeginCalls, txFnCalls, txSleeps, txLastReq, txLastGet, txFailures,
            fnSteps, fnWriteCalls, fnWriteThrows, txWritesEver>>

VARIABLES
    \* --- BulkWriter ---
    ops,                  \* every operation enqueued so far, by opId (the promise, the
                          \* failure count and the error it was rejected with)
    queue,                \* this.queue, as opIds
    pendingOpIds,         \* this.pendingOpIds
    flushWaiters,         \* this.flushWaiters
    flushes,              \* the promises returned by flush() and close(), by call,
                          \* each with the targetId of its call
    nextOpId,             \* this.nextOpId
    scheduled,            \* this.scheduled
    processing,           \* this.processing
    closed,               \* this.closed
    writeErrorListener,   \* whether onWriteError registered a callback
    writeResultListeners, \* whether onWriteResult registered any callback
    bwPc,                 \* where processQueue is: idle, batchWrite, sleep, loop
    batch,                \* the batch handed to processBatch, in flight or in back-off
    retryQueue,           \* processBatch's retryQueue during the back-off sleep
    retryBackoffMs,       \* processBatch's retryBackoffMs during the back-off sleep
    bwCallThrew,          \* the message of the error a call on the BulkWriter threw last
    callbackThrew,        \* whether a registered callback has thrown so far
    inFlight,             \* rest.batchWrite calls made and not yet settled
    opsLeft,              \* create/set/update/delete calls the caller still makes
    failuresLeft          \* failures the REST gateway still reports

bwVars == <<ops, queue, pendingOpIds, flushWaiters, flushes, nextOpId, scheduled,
            processing, closed, writeErrorListener, writeResultListeners, bwPc, batch,
            retryQueue, retryBackoffMs, bwCallThrew, callbackThrew,
            inFlight, opsLeft, failuresLeft>>

VARIABLES
    \* --- DocumentReference.onSnapshot / Query.onSnapshot ---
    lsKind,          \* what was subscribed to: none, document, query
    lsPc,            \* where listenToDocument/listenToQuery is: init, token, listening, failed
    lsClosed,        \* `closed` of listenToDocument / listenToQuery
    lsChannel,       \* the WebChannel: none, open, closing (close() called), closed
    cancelled,       \* `cancelled` of onSnapshot
    unsubscribe,     \* whether `unsubscribe` of onSnapshot is set
    refreshing,      \* `refreshing` of Query.onSnapshot
    refreshQueued,   \* `refreshQueued` of Query.onSnapshot
    lastSnapshot,    \* whether `lastSnapshot` of Query.onSnapshot is set
    qGet,            \* whether a this.get() of refresh() is in flight
    refreshCause,    \* what called the refresh() whose get() is in flight
    \* observations of the subscriber's callbacks and of the stream
    lsDelivered,     \* number of onNext(snapshot) calls
    lsLastDelivery,  \* what led to the latest onNext(snapshot) call
    lsErrorCalls,    \* number of onError calls
    lsCurrentSeen,   \* whether a CURRENT target change has arrived
    lsUnsubCalls,    \* calls of the function returned by onSnapshot
    lsCloseCalls,    \* calls of listener.close()
    lsChannelError,  \* whether a channel error has been handed to onError
    qObs,            \* the this.get() calls of refresh(): how many are in flight,
                     \* whether a notification came since the latest began, how the
                     \* last one ended, and the age of the last snapshot delivered
    framesLeft       \* messages and events the channel still delivers

lsVars == <<lsKind, lsPc, lsClosed, lsChannel, cancelled, unsubscribe, refreshing,
            refreshQueued, lastSnapshot, qGet, refreshCause, lsDelivered,
            lsLastDelivery, lsErrorCalls, lsCurrentSeen, lsUnsubCalls, lsCloseCalls,
            lsChannelError, qObs, framesLeft>>

VARIABLES
    \* --- getGoogleAccessToken ---
    tokenCache,      \* tokenCache.get(key) for the one key looked at
    tkNow,           \* Date.now(), in minutes
    tkPc,            \* per caller: idle, sign, fetch, done, failed
    tkResult,        \* per caller: the accessToken the latest call returned (0: none)
    tkIssued,        \* access tokens the token endpoint has issued
    tkExchanges,     \* POST requests made to the token endpoint
    tkCallsLeft      \* getGoogleAccessToken calls still made

tkVars == <<tokenCache, tkNow, tkPc, tkResult, tkIssued, tkExchanges, tkCallsLeft>>

VARIABLES
    \* --- WriteBatch ---
    wbWrites,        \* this.writes
    wbAdded,         \* the create/set/update/delete calls that returned, in call order
    wbRequests,      \* the commit requests sent, in order
    wbPending,       \* commit requests sent and not yet answered
    wbOutcome,       \* what the commit() call answered last resolved or rejected with
    wbThrows         \* create/set/update calls that threw

wbVars == <<wbWrites, wbAdded, wbRequests, wbPending, wbOutcome, wbThrows>>

VARIABLES
    \* --- the snapshots of Query.onSnapshot and computeDocChanges ---
    dcPrevious,      \* the docs of lastSnapshot when the latest refresh() compared
    dcDocs,          \* the docs of lastSnapshot
    dcChanges        \* the changes of lastSnapshot

dcVars == <<dcPrevious, dcDocs, dcChanges>>

VARIABLES
    \* --- Filter and Query.where ---
    fltPool,         \* the Filter objects the caller holds, latest last
    fltLeaves,       \* field filters made so far
    fltError,        \* the message of the error the latest call threw, if any
    qWhereFilter,    \* this.whereFilter of the query
    qWhereCalls      \* the filter nodes where() was called with, in order

fltVars == <<fltPool, fltLeaves, fltError, qWhereFilter, qWhereCalls>>

VARIABLES
    \* --- Query.getPartitions ---
    ptPc,            \* idle, partitionQuery (awaiting a page), yield, done, failed
    ptSplitPoints,   \* splitPoints
    ptPartitions,    \* the QueryPartition objects yielded so far
    ptCursors,       \* the cursors of the pages received, in order
    ptPages          \* partitionQuery responses received

ptVars == <<ptPc, ptSplitPoints, ptPartitions, ptCursors, ptPages>>

VARIABLES
    \* --- toFirestoreValue ---
    valInput,        \* the value of the latest toFirestoreValue call
    valIgnoreUndefined,  \* options.ignoreUndefinedProperties of that call
    valResult        \* what the call returned, or the error it threw

valVars == <<valInput, valIgnoreUndefined, valResult>>

VARIABLES
    \* --- Query: orderBy, limit, limitToLast, cursors and get ---
    collectionDocs,    \* the documents of the collection: the value of field f per id
    orderByClauses,    \* this.orderByClauses of the query at hand
    limitValue,        \* this.limitValue
    limitToLastValue,  \* this.limitToLastValue
    startAtBound,      \* this.startAtBound
    endAtBound,        \* this.endAtBound
    qPc,               \* get() on the query at hand: idle, runQuery, returned, threw
    structuredQuery,   \* the structuredQuery of the runQuery request of that get()
    queryDocs          \* the docs of the snapshot that get() resolved with

qryVars == <<collectionDocs, orderByClauses, limitValue, limitToLastValue, startAtBound,
             endAtBound, qPc, structuredQuery, queryDocs>>

\* the state of the functions followed on their own
fnVars == <<dcVars, fltVars, ptVars, valVars, qryVars>>

vars == <<txVars, bwVars, lsVars, tkVars, wbVars, fnVars>>
notTxVars == <<bwVars, lsVars, tkVars, wbVars, fnVars>>
notBwVars == <<txVars, lsVars, tkVars, wbVars, fnVars>>
notLsVars == <<txVars, bwVars, tkVars, wbVars, fnVars>>
notTkVars == <<txVars, bwVars, lsVars, wbVars, fnVars>>
notWbVars == <<txVars, bwVars, lsVars, tkVars, fnVars>>
notFnVars == <<txVars, bwVars, lsVars, tkVars, wbVars>>
notDcVars == <<notFnVars, fltVars, ptVars, valVars, qryVars>>
notFltVars == <<notFnVars, dcVars, ptVars, valVars, qryVars>>
notPtVars == <<notFnVars, dcVars, fltVars, valVars, qryVars>>
notValVars == <<notFnVars, dcVars, fltVars, ptVars, qryVars>>
notQryVars == <<notFnVars, dcVars, fltVars, ptVars, valVars>>

Min(a, b) == IF a < b THEN a ELSE b
Max(a, b) == IF a > b THEN a ELSE b

RECURSIVE Pow2(_)
Pow2(n) == IF n <= 0 THEN 1 ELSE 2 * Pow2(n - 1)

\* ========================================================================
\* Firestore.runTransaction and Transaction
\* ========================================================================

DefaultMaxAttempts == 5              \* options.maxAttempts ?? 5
\* options.maxAttempts: left undefined, or a number
NoMaxAttempts == [given |-> FALSE, value |-> 0]
GivenMaxAttempts(n) == [given |-> TRUE, value |-> n]

\* What can be thrown at runTransaction: a FirestoreApiError with its
\* apiStatus, an ordinary Error, or a thrown value that is no Error.
ApiStatuses == {"ABORTED", "UNAVAILABLE", "DEADLINE_EXCEEDED", "INVALID_ARGUMENT", "null"}
ApiError(s) == [type |-> "FirestoreApiError", apiStatus |-> s, message |-> "api"]
PlainError == [type |-> "Error", apiStatus |-> "null", message |-> "thrown by updateFn"]
ThrownValue == [type |-> "value", apiStatus |-> "null", message |-> "not an Error"]
ReadAfterWriteError ==
    [type |-> "Error", apiStatus |-> "null",
     message |-> "Firestore transactions require all reads to be performed before writes."]
TransactionFailedError ==
    [type |-> "Error", apiStatus |-> "null", message |-> "Firestore transaction failed"]
EncodeError ==
    [type |-> "Error", apiStatus |-> "null",
     message |-> "Cannot use \"undefined\" as a Firestore value."]
NoError == [type |-> "null", apiStatus |-> "null", message |-> "null"]

RestErrors == {ApiError(s) : s \in ApiStatuses}
FnErrors == RestErrors \cup {PlainError, ThrownValue}

TxRefs == {"col/doc1"}
WriteKinds == {"set", "create", "update", "delete"}

NoTx == [transactionId |-> 0, writes |-> <<>>, didWrite |-> FALSE]
NoReq == [kind |-> "none", transaction |-> 0, writes |-> <<>>]
NoGet == [called |-> FALSE, writesBefore |-> 0, throwsBefore |-> 0, issued |-> FALSE]
Pending == [kind |-> "pending", value |-> 0, error |-> NoError]

\* const apiStatus = error instanceof FirestoreApiError ? error.apiStatus : null
ErrorApiStatus(error) ==
    IF error.type = "FirestoreApiError" THEN error.apiStatus ELSE "null"

\* (mutation) every caught error is treated as retryable
RetryableAnyError(error) == error.type # "null"

\* const retryable = apiStatus === 'ABORTED' || ... 'UNAVAILABLE' || ... 'DEADLINE_EXCEEDED'
Retryable(error) ==
    ErrorApiStatus(error) \in {"ABORTED", "UNAVAILABLE", "DEADLINE_EXCEEDED"}

\* Math.min(1000 * 2 ** (attempt - 1), 10_000)
TxBackoff(att) == Min(1000 * Pow2(att - 1), 10000)

\* (mutation) the handle of the previous attempt is kept for the retry
NewTransactionReused(transactionId) ==
    IF tx.transactionId > 0 THEN tx
    ELSE [transactionId |-> transactionId, writes |-> <<>>, didWrite |-> FALSE]

\* new Transaction(this, transactionId)
NewTransaction(transactionId) ==
    [transactionId |-> transactionId, writes |-> <<>>, didWrite |-> FALSE]

\* options.maxAttempts ?? 5
ResolveMaxAttempts(opt) == IF opt.given THEN opt.value ELSE DefaultMaxAttempts

\* (mutation) the loop admits one attempt too many
TxLoopOffByOne(att, max, err) ==
    IF att <= max
    THEN /\ attempt' = att + 1
         /\ txPc' = "begin"
         /\ txBeginCalls' = txBeginCalls + 1
         /\ txLastReq' = [kind |-> "beginTransaction", transaction |-> 0, writes |-> <<>>]
         /\ txOutcome' = txOutcome
    ELSE /\ attempt' = att
         /\ txPc' = "rejected"
         /\ txOutcome' = [kind |-> "rejected", value |-> 0, error |-> err]
         /\ UNCHANGED <<txBeginCalls, txLastReq>>

\* The head of `while (attempt < maxAttempts)`: either the next attempt starts
\* with a beginTransaction call, or the loop is left and lastError is thrown.
TxLoop(att, max, err) ==
    IF att < max
    THEN /\ attempt' = att + 1
         /\ txPc' = "begin"
         /\ txBeginCalls' = txBeginCalls + 1
         /\ txLastReq' = [kind |-> "beginTransaction", transaction |-> 0, writes |-> <<>>]
         /\ txOutcome' = txOutcome
    ELSE /\ attempt' = att
         /\ txPc' = "rejected"
         /\ txOutcome' = [kind |-> "rejected", value |-> 0,
                          error |-> IF err.type \in {"Error", "FirestoreApiError"}
                                    THEN err ELSE TransactionFailedError]
         /\ UNCHANGED <<txBeginCalls, txLastReq>>

\* The catch block of runTransaction.
TxCatch(error) ==
    /\ lastError' = error
    /\ txFailures' = txFailures + 1
    /\ IF ~Retryable(error) \/ attempt >= txMaxAttempts
       THEN /\ txPc' = "rejected"
            /\ txOutcome' = [kind |-> "rejected", value |-> 0, error |-> error]
            /\ UNCHANGED <<txSleeps, backoffMs>>
       ELSE /\ txPc' = "sleep"
            /\ txSleeps' = txSleeps + 1
            /\ backoffMs' = TxBackoff(attempt)
            /\ UNCHANGED txOutcome

\* firestore.runTransaction(updateFn, options)
RunTransaction(opt) ==
    /\ txPc = "init"
    /\ txMaxAttempts' = ResolveMaxAttempts(opt)
    /\ TxLoop(0, ResolveMaxAttempts(opt), NoError)
    /\ UNCHANGED <<lastError, tx, backoffMs, txFnCalls, txSleeps, txLastGet,
                   txFailures, fnSteps, fnWriteCalls, txWritesEver, fnWriteThrows>>
    /\ UNCHANGED notTxVars

\* beginTransaction resolves: the handle is built and updateFn(tx) is invoked.
\* The id the server hands out is the ordinal of the begin call.
BeginReturns ==
    /\ txPc = "begin"
    /\ tx' = NewTransaction(txBeginCalls)
    /\ txPc' = "fn"
    /\ txFnCalls' = txFnCalls + 1
    /\ fnSteps' = 0
    /\ fnWriteCalls' = 0
    /\ fnWriteThrows' = 0
    /\ UNCHANGED <<txMaxAttempts, attempt, lastError, txOutcome, backoffMs,
                   txBeginCalls, txSleeps, txLastReq, txLastGet, txFailures, txWritesEver>>
    /\ UNCHANGED notTxVars


BeginThrows(error) ==
    /\ txPc = "begin"
    /\ TxCatch(error)
    /\ UNCHANGED <<txMaxAttempts, attempt, tx, txBeginCalls, txFnCalls, txLastReq,
                   txLastGet, fnSteps, fnWriteCalls, txWritesEver, fnWriteThrows>>
    /\ UNCHANGED notTxVars


\* Transaction.get(ref), called by updateFn. After a write it throws before
\* any request; updateFn either lets the error escape or catches it.
TxGet(ref, caught) ==
    /\ txPc = "fn"
    /\ fnSteps < MaxFnSteps
    /\ fnSteps' = fnSteps + 1
    /\ IF tx.didWrite
       THEN /\ txLastGet' = [called |-> TRUE, writesBefore |-> fnWriteCalls,
                            throwsBefore |-> fnWriteThrows, issued |-> FALSE]
            /\ IF caught
               THEN UNCHANGED <<txPc, lastError, txOutcome, txSleeps, backoffMs, txFailures>>
               ELSE TxCatch(ReadAfterWriteError)
            /\ UNCHANGED txLastReq
       ELSE /\ txLastGet' = [called |-> TRUE, writesBefore |-> fnWriteCalls,
                            throwsBefore |-> fnWriteThrows, issued |-> TRUE]
            /\ txPc' = "get"
            /\ txLastReq' = [kind |-> "batchGet", transaction |-> tx.transactionId,
                             writes |-> <<>>]
            /\ UNCHANGED <<lastError, txOutcome, txSleeps, backoffMs, txFailures>>
    /\ UNCHANGED <<txMaxAttempts, attempt, tx, txBeginCalls, txFnCalls, fnWriteCalls,
                   txWritesEver, fnWriteThrows>>
    /\ UNCHANGED notTxVars


BatchGetReturns ==
    /\ txPc = "get"
    /\ txPc' = "fn"
    /\ UNCHANGED <<txMaxAttempts, attempt, lastError, tx, txOutcome, backoffMs,
                   txBeginCalls, txFnCalls, txSleeps, txLastReq, txLastGet, txFailures,
                   fnSteps, fnWriteCalls, txWritesEver, fnWriteThrows>>
    /\ UNCHANGED notTxVars


BatchGetThrows(error, caught) ==
    /\ txPc = "get"
    /\ IF caught
       THEN /\ txPc' = "fn"
            /\ UNCHANGED <<lastError, txOutcome, txSleeps, backoffMs, txFailures>>
       ELSE TxCatch(error)
    /\ UNCHANGED <<txMaxAttempts, attempt, tx, txBeginCalls, txFnCalls, txLastReq,
                   txLastGet, fnSteps, fnWriteCalls, txWritesEver, fnWriteThrows>>
    /\ UNCHANGED notTxVars


\* (mutation) a write is buffered without marking the handle as written
TxBufferWriteUnmarked(t, write) == [t EXCEPT !.writes = Append(t.writes, write)]

\* Transaction.set / create / update / delete: didWrite = true; writes.push(...)
TxBufferWrite(t, write) ==
    [t EXCEPT !.didWrite = TRUE, !.writes = Append(t.writes, write)]

TxWrite(kind, ref) ==
    /\ txPc = "fn"
    /\ fnSteps < MaxFnSteps
    /\ fnSteps' = fnSteps + 1
    /\ fnWriteCalls' = fnWriteCalls + 1
    /\ txWritesEver' = txWritesEver + 1
    /\ tx' = TxBufferWrite(tx, [kind |-> kind, ref |-> ref, run |-> txFnCalls,
                                call |-> fnWriteCalls + 1])
    /\ UNCHANGED <<txPc, txMaxAttempts, attempt, lastError, txOutcome, backoffMs,
                   txBeginCalls, txFnCalls, txSleeps, txLastReq, txLastGet, txFailures,
                   fnWriteThrows>>
    /\ UNCHANGED notTxVars

\* Transaction.set / create / update with data the encoder refuses
\* (encodeSetData / encodeUpdateData throw before didWrite = true): nothing is
\* buffered; updateFn either lets the error escape or catches it.
TxWriteThrows(kind, caught) ==
    /\ txPc = "fn"
    /\ kind \in {"set", "create", "update"}
    /\ fnSteps < MaxFnSteps
    /\ fnSteps' = fnSteps + 1
    /\ fnWriteThrows' = fnWriteThrows + 1
    /\ IF caught
       THEN UNCHANGED <<txPc, lastError, txOutcome, txSleeps, backoffMs, txFailures>>
       ELSE TxCatch(EncodeError)
    /\ UNCHANGED <<txMaxAttempts, attempt, tx, txBeginCalls, txFnCalls, txLastReq,
                   txLastGet, fnWriteCalls, txWritesEver>>
    /\ UNCHANGED notTxVars


\* (mutation) the commit carries the first buffered write only
CommitRequestFirstWrite(t) ==
    [kind |-> "commit", transaction |-> t.transactionId,
     writes |-> IF t.writes = <<>> THEN <<>> ELSE <<t.writes[1]>>]

\* Transaction.commit(): one commit request with the handle's writes and id.
CommitRequest(t) ==
    [kind |-> "commit", transaction |-> t.transactionId, writes |-> t.writes]

\* updateFn resolves; runTransaction goes on to `await tx.commit()`.
FnReturns ==
    /\ txPc = "fn"
    /\ txPc' = "commit"
    /\ txLastReq' = CommitRequest(tx)
    /\ UNCHANGED <<txMaxAttempts, attempt, lastError, tx, txOutcome, backoffMs,
                   txBeginCalls, txFnCalls, txSleeps, txLastGet, txFailures,
                   fnSteps, fnWriteCalls, txWritesEver, fnWriteThrows>>
    /\ UNCHANGED notTxVars


\* updateFn rejects.
FnThrows(error) ==
    /\ txPc = "fn"
    /\ TxCatch(error)
    /\ UNCHANGED <<txMaxAttempts, attempt, tx, txBeginCalls, txFnCalls, txLastReq,
                   txLastGet, fnSteps, fnWriteCalls, txWritesEver, fnWriteThrows>>
    /\ UNCHANGED notTxVars


\* (mutation) the value of the first invocation is handed out
InvocationValueFirst(run) == 1

\* The value an invocation of updateFn resolves with, named by the ordinal
\* of the invocation.
InvocationValue(run) == run

\* commit resolves: `return result`, the value of this invocation of updateFn.
CommitReturns ==
    /\ txPc = "commit"
    /\ txPc' = "resolved"
    /\ txOutcome' = [kind |-> "resolved", value |-> InvocationValue(txFnCalls),
                     error |-> NoError]
    /\ UNCHANGED <<txMaxAttempts, attempt, lastError, tx, backoffMs, txBeginCalls,
                   txFnCalls, txSleeps, txLastReq, txLastGet, txFailures, fnSteps,
                   fnWriteCalls, txWritesEver, fnWriteThrows>>
    /\ UNCHANGED notTxVars


\* commit rejects.
CommitThrows(error) ==
    /\ txPc = "commit"
    /\ TxCatch(error)
    /\ UNCHANGED <<txMaxAttempts, attempt, tx, txBeginCalls, txFnCalls, txLastReq,
                   txLastGet, fnSteps, fnWriteCalls, txWritesEver, fnWriteThrows>>
    /\ UNCHANGED notTxVars


\* sleep(backoffMs) is over: back to the head of the while loop.
TxSleepDone ==
    /\ txPc = "sleep"
    /\ TxLoop(attempt, txMaxAttempts, lastError)
    /\ UNCHANGED <<txMaxAttempts, lastError, tx, backoffMs, txFnCalls, txSleeps,
                   txLastGet, txFailures, fnSteps, fnWriteCalls, txWritesEver, fnWriteThrows>>
    /\ UNCHANGED notTxVars


TxInit ==
    /\ txPc = "init"
    /\ txMaxAttempts = DefaultMaxAttempts
    /\ attempt = 0
    /\ lastError = NoError
    /\ tx = NoTx
    /\ txOutcome = Pending
    /\ backoffMs = 0
    /\ txBeginCalls = 0
    /\ txFnCalls = 0
    /\ txSleeps = 0
    /\ txLastReq = NoReq
    /\ txLastGet = NoGet
    /\ txFailures = 0
    /\ fnSteps = 0
    /\ fnWriteCalls = 0
    /\ fnWriteThrows = 0
    /\ txWritesEver = 0

MaxAttemptsOptions == {NoMaxAttempts} \cup {GivenMaxAttempts(n) : n \in 0..MaxAttemptsOpt}

TxNext ==
    \/ \E opt \in MaxAttemptsOptions : RunTransaction(opt)
    \/ BeginReturns
    \/ \E e \in RestErrors : BeginThrows(e)
    \/ \E r \in TxRefs, c \in BOOLEAN : TxGet(r, c)
    \/ BatchGetReturns
    \/ \E e \in RestErrors, c \in BOOLEAN : BatchGetThrows(e, c)
    \/ \E k \in WriteKinds, r \in TxRefs : TxWrite(k, r)
    \/ \E k \in WriteKinds, c \in BOOLEAN : TxWriteThrows(k, c)
    \/ FnReturns
    \/ \E e \in FnErrors : FnThrows(e)
    \/ CommitReturns
    \/ \E e \in RestErrors : CommitThrows(e)
    \/ TxSleepDone


\* ========================================================================
\* BulkWriter
\* ========================================================================

maxBatchSize == 20       \* private readonly maxBatchSize = 20
maxAttempts == 10        \* private readonly maxAttempts = 10

DocPath(n) == "col/doc" \o ToString(n)
Paths == {DocPath(1), DocPath(2)}
OperationTypes == {"create", "set", "update", "delete"}
\* The modelled caller writes a document with set() first and update() after.
KindsUsed(documentRef) ==
    IF \E id \in DOMAIN ops : ops[id].documentRef = documentRef
    THEN {"update"} ELSE {"set"}

\* One entry of response.status: absent, or a status with its code and name.
StatusMissing == [present |-> FALSE, code |-> 0, status |-> "undefined"]
StatusOf(code, name) == [present |-> TRUE, code |-> code, status |-> name]
StatusEntries ==
    {StatusMissing, StatusOf(0, "OK"), StatusOf(10, "ABORTED"),
     StatusOf(14, "UNAVAILABLE"), StatusOf(13, "INTERNAL")}

\* What a registered callback does when called: onWriteError callbacks return
\* true or false, onWriteResult callbacks return; either may throw.
CallbackOutcomes == {"true", "false", "throw"}

\* What rest.batchWrite rejects with.
BatchWriteErrors == {ApiError("ABORTED"), ApiError("UNAVAILABLE"), ApiError("INTERNAL"), PlainError}

NoBulkWriterError ==
    [code |-> 0, documentRef |-> "", operationType |-> "", failedAttempts |-> 0]

\* new BulkWriterError({code, message, documentRef, operationType, failedAttempts})
BulkWriterError(code, entry, failedAttempts) ==
    [code |-> code, documentRef |-> entry.documentRef,
     operationType |-> entry.operationType, failedAttempts |-> failedAttempts]

\* The BulkWriterOperation pushed by enqueue, with its promise; `failure` and
\* `answer` record the status of its latest failure and what the onWriteError
\* callback did when called for it.
NewOperation(operationType, documentRef) ==
    [documentRef |-> documentRef, operationType |-> operationType, failedAttempts |-> 0,
     promise |-> "pending", settleCalls |-> 0, sends |-> 0, error |-> NoBulkWriterError,
     resolvedOn |-> "none",
     failure |-> "none", answer |-> "none"]

\* [...this.pendingOpIds].some((id) => id <= targetId)
HasPending(pending, targetId) == \E id \in pending : id <= targetId

\* notifyFlushWaiters(): every waiter without a pending operation up to its
\* target is removed and resolved.
NotifyFlushWaiters(st) ==
    [st EXCEPT
        !.flushWaiters = SelectSeq(st.flushWaiters,
                                   LAMBDA w : HasPending(st.pendingOpIds, w.targetId)),
        !.flushes = [f \in DOMAIN st.flushes |->
                        IF \E k \in DOMAIN st.flushWaiters :
                               /\ st.flushWaiters[k].flush = f
                               /\ ~HasPending(st.pendingOpIds, st.flushWaiters[k].targetId)
                        THEN [st.flushes[f] EXCEPT !.promise = "resolved"]
                        ELSE st.flushes[f]]]

RemoveAt(q, i) == SubSeq(q, 1, i - 1) \o SubSeq(q, i + 1, Len(q))

\* (mutation) takeBatch without the seenPaths check
RECURSIVE TakeBatchNoPathCheck(_, _, _, _)
TakeBatchNoPathCheck(q, i, selected, seenPaths) ==
    IF i > Len(q) \/ Len(selected) >= maxBatchSize
    THEN [selected |-> selected, queue |-> q]
    ELSE TakeBatchNoPathCheck(RemoveAt(q, i), i, Append(selected, q[i]), seenPaths)

\* (mutation) takeBatch without the maxBatchSize limit
RECURSIVE TakeBatchNoLimit(_, _, _, _)
TakeBatchNoLimit(q, i, selected, seenPaths) ==
    IF i > Len(q)
    THEN [selected |-> selected, queue |-> q]
    ELSE IF ops[q[i]].documentRef \in seenPaths
         THEN TakeBatchNoLimit(q, i + 1, selected, seenPaths)
         ELSE TakeBatchNoLimit(RemoveAt(q, i), i, Append(selected, q[i]),
                               seenPaths \cup {ops[q[i]].documentRef})

\* The loop of takeBatch(): position i of the queue, the operations selected
\* and the paths seen so far.
RECURSIVE TakeBatchLoop(_, _, _, _)
TakeBatchLoop(q, i, selected, seenPaths) ==
    IF i > Len(q) \/ Len(selected) >= maxBatchSize
    THEN [selected |-> selected, queue |-> q]
    ELSE IF ops[q[i]].documentRef \in seenPaths
         THEN TakeBatchLoop(q, i + 1, selected, seenPaths)
         ELSE TakeBatchLoop(RemoveAt(q, i), i, Append(selected, q[i]),
                            seenPaths \cup {ops[q[i]].documentRef})

\* takeBatch()
TakeBatch(q) == TakeBatchLoop(q, 1, <<>>, {})

\* Math.min(1000 * 2 ** (entry.failedAttempts - 1), 10_000)
BulkBackoff(failedAttempts) == Min(1000 * Pow2(failedAttempts - 1), 10000)

\* const ok = !status || status.code === 0 || status.status === 'OK'
StatusIsOk(status) == ~status.present \/ status.code = 0 \/ status.status = "OK"

\* (status.status === 'ABORTED' || status.status === 'UNAVAILABLE')
DefaultRetryableStatus(name) == name \in {"ABORTED", "UNAVAILABLE"}

\* shouldRetry && entry.failedAttempts < this.maxAttempts, where shouldRetry is
\* the callback's answer when one is registered and the default policy otherwise
ShouldRetry(hasListener, answer, statusName, failedAttempts) ==
    /\ IF hasListener THEN answer = "true"
       ELSE DefaultRetryableStatus(statusName) /\ failedAttempts < maxAttempts
    /\ failedAttempts < maxAttempts

\* The state processBatch works on while it walks through a batch.
BatchState ==
    [ops |-> ops, pendingOpIds |-> pendingOpIds, flushWaiters |-> flushWaiters,
     flushes |-> flushes, retryQueue |-> <<>>, retryBackoffMs |-> 0, threw |-> FALSE]

\* entry.resolve(result); listeners; pendingOpIds.delete; notifyFlushWaiters().
\* `resolvedOn` records the status entry the operation was resolved on.
ResolveEntry(st, id, outcome, status) ==
    LET resolved == [st EXCEPT !.ops[id].promise = "resolved",
                               !.ops[id].settleCalls = @ + 1,
                               !.ops[id].resolvedOn =
                                   IF status.present THEN status.status ELSE "missing"]
    IN IF writeResultListeners /\ outcome = "throw"
       THEN [resolved EXCEPT !.threw = TRUE]
       ELSE NotifyFlushWaiters([resolved EXCEPT !.pendingOpIds = @ \ {id}])

\* A failed entry: failedAttempts += 1, the error object, the retry decision,
\* and either retryQueue.push(entry) or entry.reject(errorObj).
FailEntry(st, id, code, statusName, outcome) ==
    LET failedAttempts == st.ops[id].failedAttempts + 1
        counted == [st EXCEPT !.ops[id].failedAttempts = failedAttempts,
                              !.ops[id].failure = statusName,
                              !.ops[id].answer = IF writeErrorListener THEN outcome
                                                 ELSE "none"]
        errorObj == BulkWriterError(code, st.ops[id], failedAttempts)
    IN IF writeErrorListener /\ outcome = "throw"
       THEN [counted EXCEPT !.threw = TRUE]
       ELSE IF ShouldRetry(writeErrorListener, outcome, statusName, failedAttempts)
       THEN [counted EXCEPT !.retryQueue = Append(@, id),
                            !.retryBackoffMs = Max(@, BulkBackoff(failedAttempts))]
       ELSE NotifyFlushWaiters(
                [counted EXCEPT !.ops[id].promise = "rejected",
                                !.ops[id].settleCalls = @ + 1,
                                !.ops[id].error = errorObj,
                                !.pendingOpIds = @ \ {id}])

\* The for loop of processBatch over a response: entry i is judged by
\* statuses.at(i). A callback that throws ends the walk.
RECURSIVE ProcessStatuses(_, _, _, _, _)
ProcessStatuses(st, b, statuses, outcomes, i) ==
    IF i > Len(b) \/ st.threw THEN st
    ELSE ProcessStatuses(
            IF StatusIsOk(statuses[i])
            THEN ResolveEntry(st, b[i], outcomes[i], statuses[i])
            ELSE FailEntry(st, b[i], statuses[i].code, statuses[i].status, outcomes[i]),
            b, statuses, outcomes, i + 1)

\* The for loop of the catch block of processBatch: batchWrite itself threw.
\* A status name counts only on a FirestoreApiError; the error code is 0.
RECURSIVE ProcessThrown(_, _, _, _, _)
ProcessThrown(st, b, error, outcomes, i) ==
    IF i > Len(b) \/ st.threw THEN st
    ELSE ProcessThrown(
            FailEntry(st, b[i], 0, ErrorApiStatus(error), outcomes[i]),
            b, error, outcomes, i + 1)

\* schedule(): the microtask is queued unless one is queued already.
Schedule == scheduled' = TRUE

MarkSent(o, b) ==
    [id \in DOMAIN o |->
        IF \E k \in DOMAIN b : b[k] = id THEN [o[id] EXCEPT !.sends = @ + 1] ELSE o[id]]

\* The while loop of processQueue() from its head, with the queue as it is
\* now: the next batch is taken and handed to rest.batchWrite, or the loop is
\* left and `processing` is reset.
ProcessQueueLoop(q, o) ==
    LET taken == TakeBatch(q) IN
    IF Len(q) > 0 /\ Len(taken.selected) > 0
    THEN /\ queue' = taken.queue
         /\ batch' = taken.selected
         /\ ops' = MarkSent(o, taken.selected)
         /\ bwPc' = "batchWrite"
         /\ processing' = TRUE
         /\ inFlight' = inFlight + 1
    ELSE /\ queue' = q
         /\ batch' = <<>>
         /\ ops' = o
         /\ bwPc' = "idle"
         /\ processing' = FALSE
         /\ UNCHANGED inFlight

NoCallError == ""
EnsureOpenError == "BulkWriter has already been closed."

\* (mutation) ensureOpen() lets every call through
EnsureOpenNeverThrows == FALSE

\* ensureOpen(): if (this.closed) throw new Error(...)
EnsureOpenThrows == closed

\* create, set, update, delete, flush, close, onWriteResult or onWriteError on
\* a closed BulkWriter: ensureOpen() throws; the call changes nothing else.
CallOnClosed ==
    /\ EnsureOpenThrows
    /\ bwCallThrew = NoCallError
    /\ bwCallThrew' = EnsureOpenError
    /\ UNCHANGED <<ops, queue, pendingOpIds, flushWaiters, flushes, nextOpId, scheduled,
                   processing, closed, writeErrorListener, writeResultListeners, bwPc,
                   batch, retryQueue, retryBackoffMs, callbackThrew,
                   opsLeft, failuresLeft, inFlight>>
    /\ UNCHANGED notBwVars

\* create / set / update / delete, through enqueue()
Enqueue(operationType, documentRef) ==
    /\ ~EnsureOpenThrows
    /\ opsLeft > 0
    /\ opsLeft' = opsLeft - 1
    /\ nextOpId' = nextOpId + 1
    /\ pendingOpIds' = pendingOpIds \cup {nextOpId}
    /\ ops' = Append(ops, NewOperation(operationType, documentRef))
    /\ queue' = Append(queue, nextOpId)
    /\ Schedule
    /\ UNCHANGED bwCallThrew
    /\ UNCHANGED <<flushWaiters, flushes, processing, closed, writeErrorListener,
                   writeResultListeners, bwPc, batch, retryQueue, retryBackoffMs, callbackThrew, failuresLeft, inFlight>>
    /\ UNCHANGED notBwVars

\* onWriteResult(callback)
OnWriteResult ==
    /\ ~EnsureOpenThrows
    /\ nextOpId = 1          \* the caller registers its callbacks before it writes
    /\ writeResultListeners' = TRUE
    /\ UNCHANGED bwCallThrew
    /\ UNCHANGED <<ops, queue, pendingOpIds, flushWaiters, flushes, nextOpId, scheduled,
                   processing, closed, writeErrorListener, bwPc, batch, retryQueue,
                   retryBackoffMs, callbackThrew, opsLeft, failuresLeft, inFlight>>
    /\ UNCHANGED notBwVars

\* onWriteError(shouldRetryCallback)
OnWriteError ==
    /\ ~EnsureOpenThrows
    /\ nextOpId = 1          \* the caller registers its callbacks before it writes
    /\ ~writeErrorListener
    /\ writeErrorListener' = TRUE
    /\ UNCHANGED bwCallThrew
    /\ UNCHANGED <<ops, queue, pendingOpIds, flushWaiters, flushes, nextOpId, scheduled,
                   processing, closed, writeResultListeners, bwPc, batch, retryQueue,
                   retryBackoffMs, callbackThrew, opsLeft, failuresLeft, inFlight>>
    /\ UNCHANGED notBwVars

\* The common body of flush() and close(): the target id, schedule(), and the
\* promise, resolved at once or parked in flushWaiters.
FlushBody ==
    /\ Len(flushes) < MaxFlushes
    /\ Schedule
    /\ IF HasPending(pendingOpIds, nextOpId - 1)
       THEN /\ flushWaiters' = Append(flushWaiters,
                                      [targetId |-> nextOpId - 1, flush |-> Len(flushes) + 1])
            /\ flushes' = Append(flushes, [promise |-> "pending",
                                           targetId |-> nextOpId - 1])
       ELSE /\ flushes' = Append(flushes, [promise |-> "resolved",
                                           targetId |-> nextOpId - 1])
            /\ UNCHANGED flushWaiters
    /\ UNCHANGED bwCallThrew
    /\ UNCHANGED <<ops, queue, pendingOpIds, nextOpId, processing, writeErrorListener,
                   writeResultListeners, bwPc, batch, retryQueue, retryBackoffMs, callbackThrew, opsLeft, failuresLeft, inFlight>>
    /\ UNCHANGED notBwVars

\* flush()
Flush ==
    /\ ~EnsureOpenThrows
    /\ FlushBody
    /\ UNCHANGED closed

\* close()
Close ==
    /\ ~EnsureOpenThrows
    /\ closed' = TRUE
    /\ FlushBody

\* (mutation) processQueue() without its `processing` guard
RunScheduledUnguarded ==
    /\ scheduled
    /\ scheduled' = FALSE
    /\ ProcessQueueLoop(queue, ops)
    /\ UNCHANGED <<pendingOpIds, flushWaiters, flushes, nextOpId, closed,
                   writeErrorListener, writeResultListeners, retryQueue, retryBackoffMs,
                   bwCallThrew, callbackThrew, opsLeft, failuresLeft>>
    /\ UNCHANGED notBwVars

\* The microtask queued by schedule(): scheduled = false; processQueue(), which
\* returns at once while another run of it is in progress.
RunScheduled ==
    /\ scheduled
    /\ scheduled' = FALSE
    /\ IF processing
       THEN UNCHANGED <<ops, queue, batch, bwPc, processing, inFlight>>
       ELSE ProcessQueueLoop(queue, ops)
    /\ UNCHANGED <<pendingOpIds, flushWaiters, flushes, nextOpId, closed,
                   writeErrorListener, writeResultListeners, retryQueue, retryBackoffMs,
                   bwCallThrew, callbackThrew, opsLeft, failuresLeft>>
    /\ UNCHANGED notBwVars

\* What follows the for loop of processBatch, given the state st it left: a
\* thrown callback ends processBatch and processQueue (finally: processing =
\* false); entries to retry start the back-off sleep; otherwise processBatch
\* returns to the loop of processQueue.
AfterBatch(st) ==
    /\ ops' = st.ops
    /\ pendingOpIds' = st.pendingOpIds
    /\ flushWaiters' = st.flushWaiters
    /\ flushes' = st.flushes
    /\ callbackThrew' = (callbackThrew \/ st.threw)
    /\ IF st.threw
       THEN /\ bwPc' = "idle"
            /\ processing' = FALSE
            /\ batch' = <<>>
            /\ retryQueue' = <<>>
            /\ retryBackoffMs' = 0
       ELSE IF Len(st.retryQueue) > 0
       THEN /\ bwPc' = "sleep"    \* retryBackoffMs >= 1000 here: failedAttempts >= 1
            /\ retryQueue' = st.retryQueue
            /\ retryBackoffMs' = st.retryBackoffMs
            /\ UNCHANGED <<processing, batch>>
       ELSE /\ bwPc' = "loop"
            /\ batch' = <<>>
            /\ retryQueue' = <<>>
            /\ retryBackoffMs' = 0
            /\ UNCHANGED processing

FailureCount(statuses) == Cardinality({i \in DOMAIN statuses : ~StatusIsOk(statuses[i])})

\* rest.batchWrite resolves with a response; processBatch walks the batch.
BatchWriteReturns(statuses, outcomes) ==
    /\ bwPc = "batchWrite"
    /\ FailureCount(statuses) <= failuresLeft
    /\ failuresLeft' = failuresLeft - FailureCount(statuses)
    /\ inFlight' = inFlight - 1
    /\ AfterBatch(ProcessStatuses(BatchState, batch, statuses, outcomes, 1))
    /\ UNCHANGED <<queue, nextOpId, scheduled, closed, writeErrorListener,
                   writeResultListeners, bwCallThrew, opsLeft>>
    /\ UNCHANGED notBwVars

\* rest.batchWrite rejects; the catch block of processBatch walks the batch.
BatchWriteThrows(error, outcomes) ==
    /\ bwPc = "batchWrite"
    /\ failuresLeft > 0
    /\ failuresLeft' = failuresLeft - 1
    /\ inFlight' = inFlight - 1
    /\ AfterBatch(ProcessThrown(BatchState, batch, error, outcomes, 1))
    /\ UNCHANGED <<queue, nextOpId, scheduled, closed, writeErrorListener,
                   writeResultListeners, bwCallThrew, opsLeft>>
    /\ UNCHANGED notBwVars

\* (mutation) the operations to retry are not put back after the back-off
BackoffDoneDrops ==
    /\ bwPc = "sleep"
    /\ queue' = queue
    /\ retryQueue' = <<>>
    /\ retryBackoffMs' = 0
    /\ batch' = <<>>
    /\ bwPc' = "loop"
    /\ UNCHANGED <<ops, pendingOpIds, flushWaiters, flushes, nextOpId, scheduled,
                   processing, closed, writeErrorListener, writeResultListeners,
                   bwCallThrew, callbackThrew, opsLeft, failuresLeft, inFlight>>
    /\ UNCHANGED notBwVars

\* (mutation) the whole batch, settled operations included, is put back after
\* the back-off
BackoffDoneRequeuesBatch ==
    /\ bwPc = "sleep"
    /\ queue' = batch \o queue
    /\ retryQueue' = <<>>
    /\ retryBackoffMs' = 0
    /\ batch' = <<>>
    /\ bwPc' = "loop"
    /\ UNCHANGED <<ops, pendingOpIds, flushWaiters, flushes, nextOpId, scheduled,
                   processing, closed, writeErrorListener, writeResultListeners,
                   bwCallThrew, callbackThrew, opsLeft, failuresLeft, inFlight>>
    /\ UNCHANGED notBwVars

\* sleep(retryBackoffMs) is over: the retry queue is put back at the front of
\* the queue, in order, and processBatch returns.
BackoffDone ==
    /\ bwPc = "sleep"
    /\ queue' = retryQueue \o queue
    /\ retryQueue' = <<>>
    /\ retryBackoffMs' = 0
    /\ batch' = <<>>
    /\ bwPc' = "loop"
    /\ UNCHANGED <<ops, pendingOpIds, flushWaiters, flushes, nextOpId, scheduled,
                   processing, closed, writeErrorListener, writeResultListeners, bwCallThrew, callbackThrew, opsLeft, failuresLeft, inFlight>>
    /\ UNCHANGED notBwVars

\* processQueue resumes after `await this.processBatch(batch)`.
ProcessQueueResumes ==
    /\ bwPc = "loop"
    /\ ProcessQueueLoop(queue, ops)
    /\ UNCHANGED <<pendingOpIds, flushWaiters, flushes, nextOpId, scheduled, closed,
                   writeErrorListener, writeResultListeners, retryQueue, retryBackoffMs,
                   bwCallThrew, callbackThrew, opsLeft, failuresLeft>>
    /\ UNCHANGED notBwVars

\* new BulkWriter(firestore, options), with what its surroundings will do
BulkWriterInit(operations, failures) ==
    /\ ops = <<>>
    /\ queue = <<>>
    /\ pendingOpIds = {}
    /\ flushWaiters = <<>>
    /\ flushes = <<>>
    /\ nextOpId = 1
    /\ scheduled = FALSE
    /\ processing = FALSE
    /\ closed = FALSE
    /\ writeErrorListener = FALSE
    /\ writeResultListeners = FALSE
    /\ bwPc = "idle"
    /\ batch = <<>>
    /\ retryQueue = <<>>
    /\ retryBackoffMs = 0
    /\ bwCallThrew = NoCallError
    /\ callbackThrew = FALSE
    /\ inFlight = 0
    /\ opsLeft = operations
    /\ failuresLeft = failures

BatchInputs(S) == [1..Len(batch) -> S]

\* What the callback called for an entry can do: nothing is called when no
\* callback of the kind is registered, and an onWriteResult callback returns
\* no answer.
OutcomesFor(failed) ==
    IF failed THEN (IF writeErrorListener THEN CallbackOutcomes ELSE {"true"})
    ELSE (IF writeResultListeners THEN {"true", "throw"} ELSE {"true"})

OutcomesForStatuses(statuses) ==
    {c \in BatchInputs(CallbackOutcomes) :
        \A i \in DOMAIN c : c[i] \in OutcomesFor(~StatusIsOk(statuses[i]))}

OutcomesForThrown ==
    {c \in BatchInputs(CallbackOutcomes) : \A i \in DOMAIN c : c[i] \in OutcomesFor(TRUE)}

BulkWriterNext ==
    \/ \E d \in Paths : \E t \in KindsUsed(d) : Enqueue(t, d)
    \/ OnWriteResult
    \/ OnWriteError
    \/ Flush
    \/ Close
    \/ CallOnClosed
    \/ RunScheduled
    \/ \E s \in BatchInputs(StatusEntries) : \E c \in OutcomesForStatuses(s) :
           BatchWriteReturns(s, c)
    \/ \E e \in BatchWriteErrors, c \in OutcomesForThrown : BatchWriteThrows(e, c)
    \/ BackoffDone
    \/ ProcessQueueResumes

\* ========================================================================
\* onSnapshot, listenToDocument and listenToQuery
\* ========================================================================

\* The messages the Listen stream delivers: document changes, an existence
\* filter, target changes (named by their targetChangeType), an error frame,
\* and a message neither schema accepts.
ChangeFrames == {"documentChange", "documentDelete", "documentRemove"}
TargetChangeFrames == {"CURRENT", "NO_CHANGE", "ADD"}
Frames == ChangeFrames \cup TargetChangeFrames \cup {"filter", "error", "unparsable"}

NoDelivery ==
    [trigger |-> "none", currentSeen |-> FALSE, cancelled |-> FALSE,
     afterError |-> FALSE]
Delivery(trigger) ==
    [trigger |-> trigger, currentSeen |-> lsCurrentSeen, cancelled |-> cancelled,
     afterError |-> lsChannelError]

\* No this.get() of refresh() has been called yet.
NoReads ==
    [inFlight |-> 0, notifiedSinceBegin |-> FALSE, lastRead |-> "none",
     delivered |-> "none"]

\* refresh() reaches `await this.get()`: one more read is in flight, begun
\* after every notification so far.
BeginGet(o) == [o EXCEPT !.inFlight = @ + 1, !.notifiedSinceBegin = FALSE]

\* onNext() of the listenToQuery options: a notification, later than the
\* beginning of every read so far.
Notified(o) ==
    [o EXCEPT !.notifiedSinceBegin = TRUE,
              !.delivered = IF @ = "fresh" THEN "stale" ELSE @]

\* `await this.get()` is over: onNext(snapshot) with a snapshot that is as old
\* as the beginning of its read, or onError(error).
EndGet(o, outcome) ==
    [o EXCEPT !.inFlight = @ - 1,
              !.lastRead = outcome,
              !.delivered = IF outcome = "delivered"
                            THEN (IF o.notifiedSinceBegin THEN "stale" ELSE "fresh")
                            ELSE @]

\* (mutation) refresh() without its `refreshing` guard
RefreshUnguarded(isCancelled, isRefreshing, isQueued) ==
    IF isCancelled
    THEN [refreshing |-> isRefreshing, refreshQueued |-> isQueued, get |-> FALSE]
    ELSE [refreshing |-> TRUE, refreshQueued |-> isQueued, get |-> TRUE]

\* refresh() of Query.onSnapshot up to its await, with cancelled, refreshing
\* and refreshQueued as they are at the call: it returns at once when
\* cancelled, queues itself behind a running refresh, or starts this.get().
Refresh(isCancelled, isRefreshing, isQueued) ==
    IF isCancelled
    THEN [refreshing |-> isRefreshing, refreshQueued |-> isQueued, get |-> FALSE]
    ELSE IF isRefreshing
    THEN [refreshing |-> TRUE, refreshQueued |-> TRUE, get |-> FALSE]
    ELSE [refreshing |-> TRUE, refreshQueued |-> isQueued, get |-> TRUE]

\* ref.onSnapshot(onNext, onError) / query.onSnapshot(onNext, onError):
\* listenToDocument or listenToQuery is started and awaits the access token;
\* a query subscription calls refresh() first.
OnSnapshot(kind) ==
    /\ lsPc = "init"
    /\ lsKind' = kind
    /\ lsPc' = "token"
    /\ IF kind = "query"
       THEN /\ refreshing' = Refresh(cancelled, refreshing, refreshQueued).refreshing
            /\ qGet' = TRUE
            /\ refreshCause' = "subscribe"
            /\ qObs' = BeginGet(qObs)
       ELSE UNCHANGED <<refreshing, qGet, refreshCause, qObs>>
    /\ UNCHANGED <<lsClosed, lsChannel, cancelled, unsubscribe, refreshQueued,
                   lastSnapshot, lsDelivered, lsLastDelivery, lsErrorCalls,
                   lsCurrentSeen, lsUnsubCalls, lsCloseCalls, lsChannelError,
                   framesLeft>>
    /\ UNCHANGED notLsVars

\* _getAccessToken() resolves: the channel is opened, the target is added and
\* the unsubscribe function is handed to onSnapshot, which calls it at once
\* when the subscription was cancelled meanwhile.
GetAccessTokenReturns ==
    /\ lsPc = "token"
    /\ lsPc' = "listening"
    /\ unsubscribe' = TRUE
    /\ IF cancelled
       THEN /\ lsClosed' = TRUE
            /\ lsChannel' = "closing"
            /\ lsCloseCalls' = lsCloseCalls + 1
       ELSE /\ lsClosed' = FALSE
            /\ lsChannel' = "open"
            /\ UNCHANGED lsCloseCalls
    /\ UNCHANGED <<lsKind, cancelled, refreshing, refreshQueued, lastSnapshot, qGet,
                   refreshCause, lsDelivered, lsLastDelivery, lsErrorCalls,
                   lsCurrentSeen, lsUnsubCalls, lsChannelError, framesLeft>>
    /\ UNCHANGED qObs
    /\ UNCHANGED notLsVars

\* _getAccessToken() rejects: .catch((error) => onError?.(error))
GetAccessTokenThrows ==
    /\ lsPc = "token"
    /\ lsPc' = "failed"
    /\ lsErrorCalls' = lsErrorCalls + 1
    /\ UNCHANGED <<lsKind, lsClosed, lsChannel, cancelled, unsubscribe, refreshing,
                   refreshQueued, lastSnapshot, qGet, refreshCause, lsDelivered,
                   lsLastDelivery, lsCurrentSeen, lsUnsubCalls, lsCloseCalls,
                   lsChannelError, framesLeft>>
    /\ UNCHANGED qObs
    /\ UNCHANGED notLsVars

\* The function returned by onSnapshot: cancelled = true; unsubscribe?.(),
\* which closes the channel unless `closed` is set already.
Unsubscribe ==
    /\ lsPc # "init"
    /\ lsUnsubCalls < MaxUnsubscribes
    /\ lsUnsubCalls' = lsUnsubCalls + 1
    /\ cancelled' = TRUE
    /\ IF unsubscribe /\ ~lsClosed
       THEN /\ lsClosed' = TRUE
            /\ lsChannel' = "closing"
            /\ lsCloseCalls' = lsCloseCalls + 1
       ELSE UNCHANGED <<lsClosed, lsChannel, lsCloseCalls>>
    /\ UNCHANGED <<lsKind, lsPc, unsubscribe, refreshing, refreshQueued, lastSnapshot,
                   qGet, refreshCause, lsDelivered, lsLastDelivery, lsErrorCalls,
                   lsCurrentSeen, lsChannelError, framesLeft>>
    /\ UNCHANGED qObs
    /\ UNCHANGED notLsVars

\* The error-frame branch of onMessage, common to listenToDocument and
\* listenToQuery: options.onError?.(...) and then listener.close(). The
\* subscriber's error handler may call the function returned by onSnapshot
\* (handlerUnsubscribes), which sets cancelled and `closed` and closes the
\* channel before onMessage closes it.
ErrorFrame(handlerUnsubscribes) ==
    /\ lsErrorCalls' = lsErrorCalls + 1
    /\ lsChannelError' = TRUE
    /\ lsChannel' = "closing"
    /\ IF handlerUnsubscribes
       THEN /\ cancelled' = TRUE
            /\ lsUnsubCalls' = lsUnsubCalls + 1
            /\ lsClosed' = TRUE
            /\ lsCloseCalls' = lsCloseCalls + 2
       ELSE /\ lsCloseCalls' = lsCloseCalls + 1
            /\ UNCHANGED <<cancelled, lsUnsubCalls, lsClosed>>

\* onMessage of listenToDocument: nothing once closed; an error frame goes to
\* onError and closes the channel; a document change, delete or remove goes
\* to onNext as a snapshot; every other message is dropped.
DocumentOnMessage(frame, handlerUnsubscribes) ==
    IF lsClosed
    THEN UNCHANGED <<lsChannel, lsDelivered, lsLastDelivery, lsErrorCalls, cancelled,
                     lsUnsubCalls, lsClosed, lsCloseCalls, lsChannelError>>
    ELSE IF frame = "error"
    THEN /\ ErrorFrame(handlerUnsubscribes)
         /\ UNCHANGED <<lsDelivered, lsLastDelivery>>
    ELSE IF frame \in ChangeFrames
    THEN /\ lsDelivered' = lsDelivered + 1
         /\ lsLastDelivery' = Delivery(frame)
         /\ UNCHANGED <<lsChannel, lsErrorCalls, cancelled, lsUnsubCalls, lsClosed,
                        lsCloseCalls, lsChannelError>>
    ELSE UNCHANGED <<lsChannel, lsDelivered, lsLastDelivery, lsErrorCalls, cancelled,
                     lsUnsubCalls, lsClosed, lsCloseCalls, lsChannelError>>

\* onMessage of listenToQuery: as above, but a document change, delete or
\* remove and a filter call refresh().
QueryOnMessage(frame, handlerUnsubscribes) ==
    IF lsClosed
    THEN UNCHANGED <<lsChannel, lsErrorCalls, refreshing, refreshQueued, qGet,
                     refreshCause, cancelled, lsUnsubCalls, lsClosed, lsCloseCalls,
                     lsChannelError>>
    ELSE IF frame = "error"
    THEN /\ ErrorFrame(handlerUnsubscribes)
         /\ UNCHANGED <<refreshing, refreshQueued, qGet, refreshCause>>
    ELSE IF frame \in ChangeFrames \cup {"filter"}
    THEN LET r == Refresh(cancelled, refreshing, refreshQueued) IN
         /\ refreshing' = r.refreshing
         /\ refreshQueued' = r.refreshQueued
         /\ qGet' = (qGet \/ r.get)
         /\ refreshCause' = IF r.get THEN frame ELSE refreshCause
         /\ UNCHANGED <<lsChannel, lsErrorCalls, cancelled, lsUnsubCalls, lsClosed,
                        lsCloseCalls, lsChannelError>>
    ELSE UNCHANGED <<lsChannel, lsErrorCalls, refreshing, refreshQueued, qGet,
                     refreshCause, cancelled, lsUnsubCalls, lsClosed, lsCloseCalls,
                     lsChannelError>>

\* The channel delivers a message; when it is an error frame that reaches
\* the subscriber's error handler, the handler may unsubscribe.
OnMessage(frame, handlerUnsubscribes) ==
    /\ lsPc = "listening"
    /\ lsChannel = "open"
    /\ framesLeft > 0
    /\ handlerUnsubscribes =>
           frame = "error" /\ ~lsClosed /\ lsUnsubCalls < MaxUnsubscribes
    /\ framesLeft' = framesLeft - 1
    /\ lsCurrentSeen' = (lsCurrentSeen \/ frame = "CURRENT")
    /\ IF lsKind = "document"
       THEN /\ DocumentOnMessage(frame, handlerUnsubscribes)
            /\ UNCHANGED <<refreshing, refreshQueued, qGet, refreshCause>>
       ELSE /\ QueryOnMessage(frame, handlerUnsubscribes)
            /\ UNCHANGED <<lsDelivered, lsLastDelivery>>
    /\ qObs' = IF lsKind = "query" /\ ~lsClosed /\ frame \in ChangeFrames \cup {"filter"}
               THEN IF Refresh(cancelled, refreshing, refreshQueued).get
                    THEN BeginGet(Notified(qObs))
                    ELSE Notified(qObs)
               ELSE qObs
    /\ UNCHANGED <<lsKind, lsPc, unsubscribe, lastSnapshot>>
    /\ UNCHANGED notLsVars

\* The channel reports an error: onError of the listener, passed on unless closed.
ChannelError ==
    /\ lsPc = "listening"
    /\ lsChannel = "open"
    /\ framesLeft > 0
    /\ framesLeft' = framesLeft - 1
    /\ lsErrorCalls' = IF lsClosed THEN lsErrorCalls ELSE lsErrorCalls + 1
    /\ lsChannelError' = (lsChannelError \/ ~lsClosed)
    /\ UNCHANGED <<lsKind, lsPc, lsClosed, lsChannel, cancelled, unsubscribe, refreshing,
                   refreshQueued, lastSnapshot, qGet, refreshCause, lsDelivered,
                   lsLastDelivery, lsCurrentSeen, lsUnsubCalls, lsCloseCalls>>
    /\ UNCHANGED qObs
    /\ UNCHANGED notLsVars

\* The channel closes, by itself or after close(): onClose sets `closed`.
ChannelClose ==
    /\ lsPc = "listening"
    /\ lsChannel \in {"open", "closing"}
    /\ lsChannel' = "closed"
    /\ lsClosed' = TRUE
    /\ UNCHANGED <<lsKind, lsPc, cancelled, unsubscribe, refreshing, refreshQueued,
                   lastSnapshot, qGet, refreshCause, lsDelivered, lsLastDelivery,
                   lsErrorCalls, lsCurrentSeen, lsUnsubCalls, lsCloseCalls,
                   lsChannelError, framesLeft>>
    /\ UNCHANGED qObs
    /\ UNCHANGED notLsVars

\* The finally block of refresh(): refreshing = false, and a queued refresh
\* is started.
RefreshFinally ==
    LET r == Refresh(cancelled, FALSE, FALSE) IN
    IF refreshQueued
    THEN /\ refreshing' = r.refreshing
         /\ refreshQueued' = r.refreshQueued
         /\ qGet' = r.get
         /\ refreshCause' = IF r.get THEN "queued" ELSE refreshCause
    ELSE /\ refreshing' = FALSE
         /\ qGet' = FALSE
         /\ UNCHANGED <<refreshQueued, refreshCause>>

\* The reads in flight after the finally block of refresh().
AfterFinally(o) ==
    IF refreshQueued /\ Refresh(cancelled, FALSE, FALSE).get THEN BeginGet(o) ELSE o

\* this.get() of refresh() resolves: the snapshot is built against
\* lastSnapshot, kept and handed to onNext.
QueryGetReturns ==
    /\ qGet
    /\ lastSnapshot' = TRUE
    /\ lsDelivered' = lsDelivered + 1
    /\ lsLastDelivery' = Delivery(refreshCause)
    /\ RefreshFinally
    /\ qObs' = AfterFinally(EndGet(qObs, "delivered"))
    /\ UNCHANGED <<lsKind, lsPc, lsClosed, lsChannel, cancelled, unsubscribe,
                   lsErrorCalls, lsCurrentSeen, lsUnsubCalls, lsCloseCalls,
                   lsChannelError, framesLeft>>
    /\ UNCHANGED notLsVars

\* this.get() of refresh() rejects: onError?.(error)
QueryGetThrows ==
    /\ qGet
    /\ lsErrorCalls' = lsErrorCalls + 1
    /\ RefreshFinally
    /\ qObs' = AfterFinally(EndGet(qObs, "error"))
    /\ UNCHANGED <<lsKind, lsPc, lsClosed, lsChannel, cancelled, unsubscribe,
                   lastSnapshot, lsDelivered, lsLastDelivery, lsCurrentSeen,
                   lsUnsubCalls, lsCloseCalls, lsChannelError, framesLeft>>
    /\ UNCHANGED notLsVars

\* Before onSnapshot is called, with the number of messages and events the
\* channel will deliver.
ListenInit(frames) ==
    /\ lsKind = "none"
    /\ lsPc = "init"
    /\ lsClosed = FALSE
    /\ lsChannel = "none"
    /\ cancelled = FALSE
    /\ unsubscribe = FALSE
    /\ refreshing = FALSE
    /\ refreshQueued = FALSE
    /\ lastSnapshot = FALSE
    /\ qGet = FALSE
    /\ refreshCause = "none"
    /\ lsDelivered = 0
    /\ lsLastDelivery = NoDelivery
    /\ lsErrorCalls = 0
    /\ lsCurrentSeen = FALSE
    /\ lsUnsubCalls = 0
    /\ lsCloseCalls = 0
    /\ lsChannelError = FALSE
    /\ qObs = NoReads
    /\ framesLeft = frames

ListenNext ==
    \/ \E k \in {"document", "query"} : OnSnapshot(k)
    \/ GetAccessTokenReturns
    \/ GetAccessTokenThrows
    \/ Unsubscribe
    \/ \E f \in Frames, u \in BOOLEAN : OnMessage(f, u)
    \/ ChannelError
    \/ ChannelClose
    \/ QueryGetReturns
    \/ QueryGetThrows

\* ------------------------------------------------------------------------
\* getGoogleAccessToken: the access token of one service account and scope
\* set (one cacheKey), asked for by several callers. Time is counted in
\* minutes.
\* ------------------------------------------------------------------------
Callers == 1..MaxCallers

RefreshMarginMin == 1     \* cached.expiresAtMs - 60_000
DefaultExpiresInMin == 60 \* parsed.data.expires_in ?? 3600
NoExpiresIn == 0          \* the response carries no expires_in

NoEntry == [accessToken |-> 0, expiresAtMs |-> 0]

\* cached && Date.now() < cached.expiresAtMs - 60_000
CacheFresh(cached, now) ==
    cached # NoEntry /\ now < cached.expiresAtMs - RefreshMarginMin

\* getGoogleAccessToken up to its first await: a fresh cached token is
\* returned, otherwise the assertion is built and signed.
GetGoogleAccessToken(c) ==
    /\ tkPc[c] \in {"idle", "done", "failed"}
    /\ tkCallsLeft > 0
    /\ tkCallsLeft' = tkCallsLeft - 1
    /\ IF CacheFresh(tokenCache, tkNow)
       THEN /\ tkPc' = [tkPc EXCEPT ![c] = "done"]
            /\ tkResult' = [tkResult EXCEPT ![c] = tokenCache.accessToken]
       ELSE /\ tkPc' = [tkPc EXCEPT ![c] = "sign"]
            /\ tkResult' = [tkResult EXCEPT ![c] = 0]
    /\ UNCHANGED <<tokenCache, tkNow, tkIssued, tkExchanges>>
    /\ UNCHANGED notTkVars

\* signJwtRs256 resolves: the token endpoint is called.
SignReturns(c) ==
    /\ tkPc[c] = "sign"
    /\ tkPc' = [tkPc EXCEPT ![c] = "fetch"]
    /\ tkExchanges' = tkExchanges + 1
    /\ UNCHANGED <<tokenCache, tkNow, tkResult, tkIssued, tkCallsLeft>>
    /\ UNCHANGED notTkVars

\* signJwtRs256 rejects (a private key that cannot be imported).
SignThrows(c) ==
    /\ tkPc[c] = "sign"
    /\ tkPc' = [tkPc EXCEPT ![c] = "failed"]
    /\ UNCHANGED <<tokenCache, tkNow, tkResult, tkIssued, tkExchanges, tkCallsLeft>>
    /\ UNCHANGED notTkVars

\* The token endpoint answers: a response that is not ok or whose payload
\* the schema refuses makes the call throw; otherwise the token is cached
\* with its expiry and returned.
FetchReturns(c, response, expiresIn) ==
    /\ tkPc[c] = "fetch"
    /\ response # "token" => expiresIn = NoExpiresIn
    /\ IF response = "token"
       THEN LET accessToken == tkIssued + 1
                expiresInMin ==
                    IF expiresIn = NoExpiresIn THEN DefaultExpiresInMin ELSE expiresIn
            IN  /\ tkIssued' = accessToken
                /\ tokenCache' = [accessToken |-> accessToken,
                                  expiresAtMs |-> tkNow + expiresInMin]
                /\ tkPc' = [tkPc EXCEPT ![c] = "done"]
                /\ tkResult' = [tkResult EXCEPT ![c] = accessToken]
       ELSE /\ tkPc' = [tkPc EXCEPT ![c] = "failed"]
            /\ UNCHANGED <<tokenCache, tkResult, tkIssued>>
    /\ UNCHANGED <<tkNow, tkExchanges, tkCallsLeft>>
    /\ UNCHANGED notTkVars

\* A minute passes.
ClockTick ==
    /\ tkNow < MaxClock
    /\ tkNow' = tkNow + 1
    /\ UNCHANGED <<tokenCache, tkPc, tkResult, tkIssued, tkExchanges, tkCallsLeft>>
    /\ UNCHANGED notTkVars

TokenResponses == {"token", "notOk", "invalid"}
ExpiresIns == {NoExpiresIn, 1, 2}

TokenInit(calls) ==
    /\ tokenCache = NoEntry
    /\ tkNow = 0
    /\ tkPc = [c \in Callers |-> "idle"]
    /\ tkResult = [c \in Callers |-> 0]
    /\ tkIssued = 0
    /\ tkExchanges = 0
    /\ tkCallsLeft = calls

TokenNext ==
    \/ \E c \in Callers : GetGoogleAccessToken(c)
    \/ \E c \in Callers : SignReturns(c)
    \/ \E c \in Callers : SignThrows(c)
    \/ \E c \in Callers, r \in TokenResponses, e \in ExpiresIns : FetchReturns(c, r, e)
    \/ ClockTick

\* ------------------------------------------------------------------------
\* WriteBatch
\* ------------------------------------------------------------------------
NoPrecondition == "none"

\* (mutation) the precondition is left out of the write
BuildUpdateWriteUnconditioned(ref, precondition) ==
    [kind |-> "update", name |-> ref, currentDocument |-> NoPrecondition]

\* buildUpdateWrite: currentDocument = {exists: true} for 'exists',
\* {exists: false} for 'not-exists', absent for null.
BuildUpdateWrite(ref, precondition) ==
    [kind |-> "update", name |-> ref,
     currentDocument |-> IF precondition = "exists" THEN "exists=true"
                         ELSE IF precondition = "not-exists" THEN "exists=false"
                         ELSE NoPrecondition]

\* buildDeleteWrite: {delete: name}
BuildDeleteWrite(ref) ==
    [kind |-> "delete", name |-> ref, currentDocument |-> NoPrecondition]

\* The write that create, set, update and delete of WriteBatch push.
BatchWriteFor(method, ref) ==
    IF method = "create" THEN BuildUpdateWrite(ref, "not-exists")
    ELSE IF method = "set" THEN BuildUpdateWrite(ref, "null")
    ELSE IF method = "update" THEN BuildUpdateWrite(ref, "exists")
    ELSE BuildDeleteWrite(ref)

\* WriteBatch.create / set / update / delete: the write is pushed onto
\* this.writes; nothing is sent.
WbWrite(method, ref) ==
    /\ Len(wbAdded) + wbThrows < MaxBatchWrites
    /\ wbWrites' = Append(wbWrites, BatchWriteFor(method, ref))
    /\ wbAdded' = Append(wbAdded, [method |-> method, ref |-> ref])
    /\ UNCHANGED <<wbRequests, wbPending, wbOutcome, wbThrows>>
    /\ UNCHANGED notWbVars

\* WriteBatch.create / set / update with data the encoder refuses, or
\* update with an odd list of fields and values: the call throws before
\* anything is pushed.
WbWriteThrows(method) ==
    /\ method # "delete"
    /\ Len(wbAdded) + wbThrows < MaxBatchWrites
    /\ wbThrows' = wbThrows + 1
    /\ UNCHANGED <<wbWrites, wbAdded, wbRequests, wbPending, wbOutcome>>
    /\ UNCHANGED notWbVars

\* WriteBatch.commit() up to its await: rest.commit({writes: this.writes})
\* builds and sends one request.
WbCommit ==
    /\ Len(wbRequests) < MaxCommits
    /\ wbRequests' = Append(wbRequests, [kind |-> "commit", transaction |-> 0,
                                          writes |-> wbWrites])
    /\ wbPending' = wbPending + 1
    /\ UNCHANGED <<wbWrites, wbAdded, wbOutcome, wbThrows>>
    /\ UNCHANGED notWbVars

\* rest.commit resolves: one WriteResult per write in this.writes.
WbCommitReturns ==
    /\ wbPending > 0
    /\ wbPending' = wbPending - 1
    /\ wbOutcome' = [kind |-> "resolved", results |-> Len(wbWrites)]
    /\ UNCHANGED <<wbWrites, wbAdded, wbRequests, wbThrows>>
    /\ UNCHANGED notWbVars

\* rest.commit rejects: commit() rejects.
WbCommitThrows ==
    /\ wbPending > 0
    /\ wbPending' = wbPending - 1
    /\ wbOutcome' = [kind |-> "rejected", results |-> 0]
    /\ UNCHANGED <<wbWrites, wbAdded, wbRequests, wbThrows>>
    /\ UNCHANGED notWbVars

WriteBatchInit ==
    /\ wbWrites = <<>>
    /\ wbAdded = <<>>
    /\ wbRequests = <<>>
    /\ wbPending = 0
    /\ wbOutcome = [kind |-> "pending", results |-> 0]
    /\ wbThrows = 0

WriteBatchNext ==
    \/ \E m \in WriteKinds, r \in Paths : WbWrite(m, r)
    \/ \E m \in WriteKinds : WbWriteThrows(m)
    \/ WbCommit
    \/ WbCommitReturns
    \/ WbCommitThrows

\* ========================================================================
\* computeDocChanges: the changes between two snapshots of a query
\* ========================================================================

MaxDocs == 3

\* The documents a query can return. Two update times of the same second.
DocPaths == {"A", "B", "C"}
Timestamps == {[seconds |-> 1, nanoseconds |-> 0], [seconds |-> 1, nanoseconds |-> 5]}
QueryDocs == [path : DocPaths, updateTime : Timestamps]

\* The results a query can have: no document twice.
DocLists ==
    UNION {{l \in [1..n -> QueryDocs] :
               \A i, j \in 1..n : l[i].path = l[j].path => i = j} : n \in 0..MaxDocs}

\* snapshot.ref.path
SnapshotKey(doc) == doc.path

\* Timestamp.valueOf(): seconds padded to 12 digits, a dot, nanoseconds padded
\* to 9 digits; the string holds both numbers and nothing else.
TimestampKey(value) == <<value.seconds, value.nanoseconds>>

\* prevByKey.get(key) / nextByKey.has(key): Map.set keeps the last entry of a
\* key. Indices count from 0.
HasKey(docs, key) == \E i \in DOMAIN docs : SnapshotKey(docs[i]) = key
EntryOf(docs, key) ==
    LET i == CHOOSE i \in DOMAIN docs :
                 /\ SnapshotKey(docs[i]) = key
                 /\ \A j \in DOMAIN docs : SnapshotKey(docs[j]) = key => j <= i
    IN [index |-> i - 1, updateTime |-> TimestampKey(docs[i].updateTime), doc |-> docs[i]]

\* (mutation) only a changed update time makes a document modified
DocModifiedByTimeOnly(previousEntry, doc, index) ==
    previousEntry.updateTime # TimestampKey(doc.updateTime)

\* updateChanged || indexChanged
DocModified(previousEntry, doc, index) ==
    \/ previousEntry.updateTime # TimestampKey(doc.updateTime)
    \/ previousEntry.index # index

\* The loop over nextDocs: 'added' for a key prevByKey lacks, 'modified' for
\* one whose update time or position changed.
RECURSIVE NextDocsLoop(_, _, _, _)
NextDocsLoop(previousDocs, nextDocs, i, changes) ==
    IF i > Len(nextDocs) THEN changes
    ELSE LET doc == nextDocs[i]
             key == SnapshotKey(doc)
         IN NextDocsLoop(previousDocs, nextDocs, i + 1,
                IF ~HasKey(previousDocs, key)
                THEN Append(changes, [type |-> "added", doc |-> doc,
                                      oldIndex |-> -1, newIndex |-> i - 1])
                ELSE IF DocModified(EntryOf(previousDocs, key), doc, i - 1)
                THEN Append(changes, [type |-> "modified", doc |-> doc,
                                      oldIndex |-> EntryOf(previousDocs, key).index,
                                      newIndex |-> i - 1])
                ELSE changes)

\* The loop over prevByKey.entries(), in the order the keys were first set:
\* 'removed' for a key nextByKey lacks.
RECURSIVE PrevEntriesLoop(_, _, _, _)
PrevEntriesLoop(previousDocs, nextDocs, i, changes) ==
    IF i > Len(previousDocs) THEN changes
    ELSE LET key == SnapshotKey(previousDocs[i])
             first == \A j \in 1..(i - 1) : SnapshotKey(previousDocs[j]) # key
             entry == EntryOf(previousDocs, key)
         IN PrevEntriesLoop(previousDocs, nextDocs, i + 1,
                IF first /\ ~HasKey(nextDocs, key)
                THEN Append(changes, [type |-> "removed", doc |-> entry.doc,
                                      oldIndex |-> entry.index, newIndex |-> -1])
                ELSE changes)

ComputeDocChanges(previousDocs, nextDocs) ==
    PrevEntriesLoop(previousDocs, nextDocs, 1,
                    NextDocsLoop(previousDocs, nextDocs, 1, <<>>))

\* The changes of the snapshot Query.get() returns: every document 'added'.
GetChanges(docs) ==
    [i \in DOMAIN docs |->
        [type |-> "added", doc |-> docs[i], oldIndex |-> -1, newIndex |-> i - 1]]

\* lastSnapshot: null, or a snapshot with its docs
NoSnapshot == [isNull |-> TRUE, docs |-> <<>>]
SnapshotOf(docs) == [isNull |-> FALSE, docs |-> docs]

\* refresh() after this.get() returned `latest`: the first snapshot is
\* `latest` itself, a later one carries computeDocChanges(lastSnapshot,
\* latest.docs); lastSnapshot = snapshot.
RefreshDelivers(latest) ==
    /\ dcPrevious' = dcDocs
    /\ dcDocs' = SnapshotOf(latest)
    /\ dcChanges' = IF dcDocs.isNull THEN GetChanges(latest)
                    ELSE ComputeDocChanges(dcDocs.docs, latest)
    /\ UNCHANGED notDcVars

DocChangesInit ==
    /\ dcPrevious = NoSnapshot
    /\ dcDocs = NoSnapshot
    /\ dcChanges = <<>>

DocChangesNext == \E latest \in DocLists : RefreshDelivers(latest)

\* ========================================================================
\* Filter.where / Filter.or / Filter.and and Query.where: the filter tree
\* ========================================================================

MaxLeaves == 4
MaxPool == 3

\* FilterNode: a field filter or a composite; null when the query has none.
FieldNode(fieldPath) ==
    [kind |-> "field", op |-> "==", fieldPath |-> fieldPath, filters |-> <<>>]
CompositeNode(op, filters) ==
    [kind |-> "composite", op |-> op, fieldPath |-> 0, filters |-> filters]
NullFilter == [kind |-> "null", op |-> "null", fieldPath |-> 0, filters |-> <<>>]

\* (mutation) flattenComposite that leaves every node as it is
FlattenCompositeNone(op, nodes) == nodes

\* flattenComposite(op, nodes): the filters of a composite of the same
\* operator take the composite's place, every other node stays.
RECURSIVE FlattenComposite(_, _)
FlattenComposite(op, nodes) ==
    IF nodes = <<>> THEN <<>>
    ELSE LET node == Head(nodes) IN
         (IF node.kind = "composite" /\ node.op = op THEN node.filters ELSE <<node>>)
             \o FlattenComposite(op, Tail(nodes))

NoFilterError == ""
FilterArityError(op) ==
    IF op = "OR" THEN "Filter.or() requires at least two filters."
    ELSE "Filter.and() requires at least two filters."

\* Query.where: the filter the query has after where(nextFilter)
CombinedFilter(whereFilter, nextFilter) ==
    IF whereFilter = NullFilter THEN nextFilter
    ELSE IF whereFilter.kind = "composite" /\ whereFilter.op = "AND"
    THEN IF nextFilter.kind = "composite" /\ nextFilter.op = "AND"
         THEN CompositeNode("AND", whereFilter.filters \o nextFilter.filters)
         ELSE CompositeNode("AND", Append(whereFilter.filters, nextFilter))
    ELSE IF nextFilter.kind = "composite" /\ nextFilter.op = "AND"
         THEN CompositeNode("AND", <<whereFilter>> \o nextFilter.filters)
         ELSE CompositeNode("AND", <<whereFilter, nextFilter>>)

\* Filter.where(fieldPath, op, value)
FilterWhere ==
    /\ Len(fltPool) < MaxPool
    /\ fltLeaves < MaxLeaves
    /\ fltLeaves' = fltLeaves + 1
    /\ fltPool' = Append(fltPool, FieldNode(fltLeaves + 1))
    /\ fltError' = NoFilterError
    /\ UNCHANGED <<qWhereFilter, qWhereCalls>>
    /\ UNCHANGED notFltVars

\* Filter.or(...filters) / Filter.and(...filters) with the latest n filters
\* the caller holds: it throws for fewer than two.
FilterComposite(op, n) ==
    /\ n <= Len(fltPool)
    /\ LET kept == SubSeq(fltPool, 1, Len(fltPool) - n)
           filters == SubSeq(fltPool, Len(fltPool) - n + 1, Len(fltPool))
       IN IF n < 2
          THEN /\ fltError' = FilterArityError(op)
               /\ UNCHANGED fltPool
          ELSE /\ fltError' = NoFilterError
               /\ fltPool' = Append(kept, CompositeNode(op, FlattenComposite(op, filters)))
    /\ UNCHANGED <<fltLeaves, qWhereFilter, qWhereCalls>>
    /\ UNCHANGED notFltVars

\* query.where(filter) with the latest Filter the caller holds
QueryWhereFilter ==
    /\ Len(fltPool) > 0
    /\ LET nextFilter == fltPool[Len(fltPool)] IN
       /\ qWhereFilter' = CombinedFilter(qWhereFilter, nextFilter)
       /\ qWhereCalls' = Append(qWhereCalls, nextFilter)
    /\ fltPool' = SubSeq(fltPool, 1, Len(fltPool) - 1)
    /\ fltError' = NoFilterError
    /\ UNCHANGED fltLeaves
    /\ UNCHANGED notFltVars

\* query.where(fieldPath, op, value)
QueryWhereField ==
    /\ fltLeaves < MaxLeaves
    /\ fltLeaves' = fltLeaves + 1
    /\ LET nextFilter == FieldNode(fltLeaves + 1) IN
       /\ qWhereFilter' = CombinedFilter(qWhereFilter, nextFilter)
       /\ qWhereCalls' = Append(qWhereCalls, nextFilter)
    /\ fltError' = NoFilterError
    /\ UNCHANGED fltPool
    /\ UNCHANGED notFltVars

FilterInit ==
    /\ fltPool = <<>>
    /\ fltLeaves = 0
    /\ fltError = NoFilterError
    /\ qWhereFilter = NullFilter
    /\ qWhereCalls = <<>>

FilterNext ==
    \/ FilterWhere
    \/ \E op \in {"AND", "OR"}, n \in 0..MaxPool : FilterComposite(op, n)
    \/ QueryWhereFilter
    \/ QueryWhereField

\* ========================================================================
\* Query.getPartitions
\* ========================================================================

MaxPages == 2
MaxCursorsPerPage == 2

\* The cursors a partitionQuery page can hold: a reference value each, or no
\* values at all.
DatabaseResourceName == "projects/p/databases/(default)"
ReferenceValue(docPath) == [referenceValue |-> <<DatabaseResourceName, "documents", docPath>>]
WireCursors ==
    {[values |-> <<ReferenceValue("col/docA")>>], [values |-> <<ReferenceValue("col/docB")>>],
     [values |-> <<>>]}
PartitionPages == UNION {[1..n -> WireCursors] : n \in 0..MaxCursorsPerPage}

\* fromFirestoreValue(value, {referenceValueResolver}) of a reference value:
\* the DocumentReference of the path behind the database's resource name.
DecodeReference(value) == [documentReference |-> value.referenceValue[3]]
DecodeCursor(cursor) == [i \in DOMAIN cursor.values |-> DecodeReference(cursor.values[i])]

\* startAt / endBefore of a QueryPartition: undefined or a list of values
UndefinedBound == [defined |-> FALSE, values |-> <<>>]
BoundOf(values) == [defined |-> TRUE, values |-> values]

\* (mutation) the partition loop stops one short: i < splitPoints.length
LastPartitionIndexShort(splitPoints) == Len(splitPoints) - 1

\* for (let i = 0; i <= splitPoints.length; i += 1)
LastPartitionIndex(splitPoints) == Len(splitPoints)

\* new QueryPartition({query, startAt, endBefore}) for index i, counted from 0
PartitionAt(splitPoints, i) ==
    [startAt |-> IF i = 0 THEN UndefinedBound ELSE BoundOf(splitPoints[i]),
     endBefore |-> IF i = Len(splitPoints) THEN UndefinedBound
                   ELSE BoundOf(splitPoints[i + 1])]

\* query.getPartitions(n), pulled for the first time: the first
\* partitionQuery request is sent.
GetPartitions ==
    /\ ptPc = "idle"
    /\ ptPc' = "partitionQuery"
    /\ UNCHANGED <<ptSplitPoints, ptPartitions, ptCursors, ptPages>>
    /\ UNCHANGED notPtVars

\* rest.partitionQuery resolves with a page: its cursors are decoded and
\* pushed to splitPoints; with a page token the next page is asked for,
\* without one the partitions are yielded.
PartitionQueryReturns(page, hasNextPageToken) ==
    /\ ptPc = "partitionQuery"
    /\ hasNextPageToken => ptPages + 1 < MaxPages
    /\ ptPages' = ptPages + 1
    /\ ptCursors' = ptCursors \o page
    /\ ptSplitPoints' = ptSplitPoints \o [i \in DOMAIN page |-> DecodeCursor(page[i])]
    /\ ptPc' = IF hasNextPageToken THEN "partitionQuery" ELSE "yield"
    /\ UNCHANGED ptPartitions
    /\ UNCHANGED notPtVars

\* rest.partitionQuery rejects: the generator throws.
PartitionQueryThrows ==
    /\ ptPc = "partitionQuery"
    /\ ptPc' = "failed"
    /\ UNCHANGED <<ptSplitPoints, ptPartitions, ptCursors, ptPages>>
    /\ UNCHANGED notPtVars

\* The consumer pulls the next partition: the loop yields it, or ends.
YieldPartition ==
    /\ ptPc = "yield"
    /\ LET i == Len(ptPartitions) IN
       IF i <= LastPartitionIndex(ptSplitPoints)
       THEN /\ ptPartitions' = Append(ptPartitions, PartitionAt(ptSplitPoints, i))
            /\ UNCHANGED ptPc
       ELSE /\ ptPc' = "done"
            /\ UNCHANGED ptPartitions
    /\ UNCHANGED <<ptSplitPoints, ptCursors, ptPages>>
    /\ UNCHANGED notPtVars

PartitionInit ==
    /\ ptPc = "idle"
    /\ ptSplitPoints = <<>>
    /\ ptPartitions = <<>>
    /\ ptCursors = <<>>
    /\ ptPages = 0

PartitionNext ==
    \/ GetPartitions
    \/ \E page \in PartitionPages, t \in BOOLEAN : PartitionQueryReturns(page, t)
    \/ PartitionQueryThrows
    \/ YieldPartition

\* ========================================================================
\* toFirestoreValue: a JavaScript value as a Firestore value
\* ========================================================================

MaxItems == 2

\* JavaScript values: what typeof and instanceof tell about them, the text
\* of a primitive, and the entries of an array or of a plain object.
JsValue(type, text) == [type |-> type, text |-> text, keys |-> <<>>, items |-> <<>>]
JsArray(items) == [type |-> "array", text |-> "", keys |-> <<>>, items |-> items]
JsObject(keys, items) == [type |-> "object", text |-> "", keys |-> keys, items |-> items]
ObjectKeys == [i \in 1..(MaxItems + 1) |-> i]
JsAtoms ==
    {JsValue("null", ""), JsValue("undefined", ""), JsValue("boolean", "true"),
     JsValue("number", "1"), JsValue("string", "s"), JsValue("bigint", "7"),
     JsValue("symbol", "tag"), JsValue("function", "f"), JsValue("instance", "Map")}
JsFlat ==
    UNION {{JsArray(items) : items \in [1..n -> JsAtoms]} : n \in 0..MaxItems}
    \cup UNION {{JsObject([i \in 1..n |-> ObjectKeys[i]], items) :
                     items \in [1..n -> JsAtoms]} : n \in 1..MaxItems}
JsNested ==
    {JsArray(<<v>>) : v \in JsFlat} \cup {JsObject(<<ObjectKeys[1]>>, <<v>>) : v \in JsFlat}
JsValues == JsAtoms \cup JsFlat \cup JsNested

\* Firestore values, and the error a call threw.
WireValue(kind, text) == [kind |-> kind, text |-> text, keys |-> <<>>, values |-> <<>>]
WireArray(values) == [kind |-> "arrayValue", text |-> "", keys |-> <<>>, values |-> values]
WireMap(keys, values) == [kind |-> "mapValue", text |-> "", keys |-> keys, values |-> values]
Thrown(message) == [kind |-> "throws", text |-> message, keys |-> <<>>, values |-> <<>>]
NoResult == [kind |-> "none", text |-> "", keys |-> <<>>, values |-> <<>>]
UndefinedError == "Cannot use \"undefined\" as a Firestore value."
UnsupportedError == "Unsupported value type for Firestore encoding."

\* The first error among encoded entries, in order: the exception that ends
\* the map() or the for loop.
FirstThrown(values) ==
    values[CHOOSE i \in DOMAIN values :
               /\ values[i].kind = "throws"
               /\ \A j \in 1..(i - 1) : values[j].kind # "throws"]

\* the indices of the entries that are not undefined
Defined(items) == {i \in DOMAIN items : items[i].type # "undefined"}
RECURSIVE KeepDefined(_, _)
KeepDefined(seq, items) ==
    IF items = <<>> THEN <<>>
    ELSE (IF Head(items).type # "undefined" THEN <<Head(seq)>> ELSE <<>>)
             \o KeepDefined(Tail(seq), Tail(items))

\* toFirestoreValue(value, {ignoreUndefinedProperties})
RECURSIVE ToFirestoreValue(_, _)
ToFirestoreValue(value, ignoreUndefinedProperties) ==
    CASE value.type = "null" -> WireValue("nullValue", "null")
      [] value.type = "undefined" -> Thrown(UndefinedError)
      [] value.type = "boolean" -> WireValue("booleanValue", value.text)
      [] value.type = "number" -> WireValue("integerValue", value.text)
      [] value.type = "string" -> WireValue("stringValue", value.text)
      [] value.type = "array" ->
            IF ~ignoreUndefinedProperties /\ Defined(value.items) # DOMAIN value.items
            THEN Thrown(UndefinedError)
            ELSE LET kept == KeepDefined(value.items, value.items)
                     values == [i \in DOMAIN kept |->
                                   ToFirestoreValue(kept[i], ignoreUndefinedProperties)]
                 IN IF \E i \in DOMAIN values : values[i].kind = "throws"
                    THEN FirstThrown(values)
                    ELSE WireArray(values)
      [] value.type = "object" ->
            LET entries == [i \in DOMAIN value.items |->
                               IF value.items[i].type = "undefined"
                               THEN (IF ignoreUndefinedProperties THEN NoResult
                                     ELSE Thrown(UndefinedError))
                               ELSE ToFirestoreValue(value.items[i],
                                                     ignoreUndefinedProperties)]
            IN IF \E i \in DOMAIN entries : entries[i].kind = "throws"
               THEN FirstThrown(entries)
               ELSE WireMap(KeepDefined(value.keys, value.items),
                            KeepDefined(entries, value.items))
      [] value.type = "bigint" -> WireValue("stringValue", value.text)
      [] value.type = "symbol" -> WireValue("stringValue", value.text)
      [] value.type = "function" -> WireValue("stringValue", "[function]")
      [] OTHER -> Thrown(UnsupportedError)

\* One call of toFirestoreValue.
EncodeValue(value, ignoreUndefinedProperties) ==
    /\ valInput' = value
    /\ valIgnoreUndefined' = ignoreUndefinedProperties
    /\ valResult' = ToFirestoreValue(value, ignoreUndefinedProperties)
    /\ UNCHANGED notValVars

ValueInit ==
    /\ valInput = JsValue("null", "")
    /\ valIgnoreUndefined = FALSE
    /\ valResult = NoResult

ValueNext == \E value \in JsValues, ignore \in BOOLEAN : EncodeValue(value, ignore)

\* ========================================================================
\* Query: orderBy, limit, limitToLast, startAt/startAfter, endAt/endBefore,
\* _buildStructuredQueryRequest and get, against a collection whose
\* documents hold one field f
\* ========================================================================

MaxRows == 3
MaxClauses == 2
MaxLimit == 2

DocIds == 1..MaxRows
FieldValues == {1, 2}
OrderFields == {"f", "__name__"}
OrderClause(fieldPath, direction) == [fieldPath |-> fieldPath, direction |-> direction]

\* limitValue === null
NullLimit == -1

\* CursorConstraint of kind 'values', and null
NullBound == [kind |-> "null", inclusive |-> FALSE, values |-> <<>>]
ParseCursorConstraint(inclusive, args) ==
    [kind |-> "values", inclusive |-> inclusive, values |-> args]

\* Cursor values: a number, the id of a document as a string, and the
\* DocumentReference toBound makes of such a string.
NumberValue(n) == [type |-> "number", n |-> n]
StringValue(id) == [type |-> "string", n |-> id]
DocumentReferenceOf(id) == [type |-> "reference", n |-> id]

\* The query at hand as one value.
ThisQuery ==
    [orderByClauses |-> orderByClauses, limitValue |-> limitValue,
     limitToLastValue |-> limitToLastValue, startAtBound |-> startAtBound,
     endAtBound |-> endAtBound]

\* const shouldReverse = this.limitToLastValue && this.limitValue !== null
ShouldReverse(q) == q.limitToLastValue /\ q.limitValue # NullLimit

\* const needsOrdering = shouldReverse || startAtBound !== null || endAtBound !== null
NeedsOrdering(q) ==
    ShouldReverse(q) \/ q.startAtBound # NullBound \/ q.endAtBound # NullBound

\* (mutation) the appended __name__ clause is always ascending
TailDirAscending(clauses) == "asc"

\* const tailDir = orderByClauses.at(-1)?.direction ?? 'asc'
TailDir(clauses) == IF clauses = <<>> THEN "asc" ELSE clauses[Len(clauses)].direction

\* orderByClauses of _buildStructuredQueryRequest: __name__ ascending when
\* an ordering is needed and none was given; a __name__ clause in the
\* direction of the last clause appended when an ordering is needed and no
\* clause orders by __name__.
EffectiveOrderBy(q) ==
    LET given == IF q.orderByClauses = <<>> /\ NeedsOrdering(q)
                 THEN <<OrderClause("__name__", "asc")>>
                 ELSE q.orderByClauses
    IN IF /\ NeedsOrdering(q)
          /\ Len(given) > 0
          /\ ~\E i \in DOMAIN given : given[i].fieldPath = "__name__"
       THEN Append(given, OrderClause("__name__", TailDir(given)))
       ELSE given

\* toBound(cursor) for a cursor of kind 'values': it throws for more values
\* than clauses and for a DocumentReference under a field other than
\* __name__; a string under __name__ becomes the DocumentReference of that
\* id in the collection.
TooManyCursorValues == "Too many cursor values provided."
ReferenceCursorError ==
    "DocumentReferences can only be used as cursor values when ordering by documentId."
BoundThrows(cursor, clauses) ==
    IF Len(cursor.values) > Len(clauses) THEN TooManyCursorValues
    ELSE IF \E i \in DOMAIN cursor.values :
                cursor.values[i].type = "reference" /\ clauses[i].fieldPath # "__name__"
    THEN ReferenceCursorError
    ELSE ""
ToBound(cursor, clauses) ==
    [inclusive |-> cursor.inclusive,
     values |-> [i \in DOMAIN cursor.values |->
                    IF clauses[i].fieldPath = "__name__" /\ cursor.values[i].type = "string"
                    THEN DocumentReferenceOf(cursor.values[i].n)
                    ELSE cursor.values[i]]]

\* (mutation) limitToLast leaves the directions as they are
SameDirection(direction) == direction

\* entry.direction === 'desc' ? 'asc' : 'desc'
ReversedDirection(direction) == IF direction = "desc" THEN "asc" ELSE "desc"

\* toFirestoreValue of a cursor value: integerValue for a number,
\* stringValue for a string, referenceValue with the resource name of the
\* document for a DocumentReference.
DocumentResourceName(id) == <<DatabaseResourceName, "documents", "col", id>>
EncodeCursorValue(value) ==
    IF value.type = "reference"
    THEN [kind |-> "referenceValue", n |-> 0, name |-> DocumentResourceName(value.n)]
    ELSE IF value.type = "number"
    THEN [kind |-> "integerValue", n |-> value.n, name |-> <<>>]
    ELSE [kind |-> "stringValue", n |-> value.n, name |-> <<>>]

\* encodeStructuredQuery: orderBy with ASCENDING / DESCENDING, limit unless
\* null, startAt with before = inclusive and endAt with before = !inclusive
\* unless the bound is null or has no values.
NoWireCursor == [present |-> FALSE, before |-> FALSE, values |-> <<>>]
EncodeDirection(direction) == IF direction = "desc" THEN "DESCENDING" ELSE "ASCENDING"
EncodeOrderBy(orderBy) ==
    [i \in DOMAIN orderBy |->
        [field |-> orderBy[i].fieldPath, direction |-> EncodeDirection(orderBy[i].direction)]]
EncodeStructuredQuery(orderBy, limit, hasStartAt, startAt, hasEndAt, endAt) ==
    [orderBy |-> EncodeOrderBy(orderBy),
     limit |-> limit,
     startAt |-> IF hasStartAt /\ Len(startAt.values) > 0
                 THEN [present |-> TRUE, before |-> startAt.inclusive,
                       values |-> [i \in DOMAIN startAt.values |->
                                      EncodeCursorValue(startAt.values[i])]]
                 ELSE NoWireCursor,
     endAt |-> IF hasEndAt /\ Len(endAt.values) > 0
               THEN [present |-> TRUE, before |-> ~endAt.inclusive,
                     values |-> [i \in DOMAIN endAt.values |->
                                    EncodeCursorValue(endAt.values[i])]]
               ELSE NoWireCursor]
NoStructuredQuery ==
    [orderBy |-> <<>>, limit |-> NullLimit, startAt |-> NoWireCursor, endAt |-> NoWireCursor]

\* _buildStructuredQueryRequest(): the error it throws, if any, and
\* otherwise shouldReverse and the structuredQuery; with shouldReverse every
\* direction is reversed and the bounds change places.
BuildThrows(q) ==
    LET clauses == EffectiveOrderBy(q)
        startError == IF q.startAtBound # NullBound THEN BoundThrows(q.startAtBound, clauses)
                      ELSE ""
        endError == IF q.endAtBound # NullBound THEN BoundThrows(q.endAtBound, clauses)
                    ELSE ""
    IN IF startError # "" THEN startError ELSE endError
BuildStructuredQueryRequest(q) ==
    LET clauses == EffectiveOrderBy(q)
        hasStartAt == q.startAtBound # NullBound
        hasEndAt == q.endAtBound # NullBound
        startAt == ToBound(q.startAtBound, clauses)
        endAt == ToBound(q.endAtBound, clauses)
    IN IF ShouldReverse(q)
       THEN EncodeStructuredQuery(
                [i \in DOMAIN clauses |->
                    OrderClause(clauses[i].fieldPath, ReversedDirection(clauses[i].direction))],
                q.limitValue, hasEndAt, endAt, hasStartAt, startAt)
       ELSE EncodeStructuredQuery(clauses, q.limitValue, hasStartAt, startAt, hasEndAt, endAt)

\* ------------------------------------------------------------------------
\* The Firestore service answering runQuery: the documents ordered by the
\* orderBy clauses, with __name__ in the direction of the last clause as
\* the final order when no clause names it, between the cursors, cut to
\* the limit.
Rows(docs) == {[id |-> id, f |-> docs[id]] : id \in DOMAIN docs}
RowKey(row, field) == IF field = "__name__" THEN row.id ELSE row.f
WireOrder(sq) ==
    IF \E i \in DOMAIN sq.orderBy : sq.orderBy[i].field = "__name__" THEN sq.orderBy
    ELSE Append(sq.orderBy,
                [field |-> "__name__",
                 direction |-> IF sq.orderBy = <<>> THEN "ASCENDING"
                               ELSE sq.orderBy[Len(sq.orderBy)].direction])
\* -1, 0 or 1: key a comes before, with or after key b in this direction
KeyOrder(a, b, direction) ==
    IF a = b THEN 0
    ELSE IF (a < b) <=> (direction = "ASCENDING") THEN -1 ELSE 1
RECURSIVE RowOrder(_, _, _, _)
RowOrder(r1, r2, order, i) ==
    IF i > Len(order) THEN 0
    ELSE LET c == KeyOrder(RowKey(r1, order[i].field), RowKey(r2, order[i].field),
                           order[i].direction)
         IN IF c # 0 THEN c ELSE RowOrder(r1, r2, order, i + 1)
WireKey(value) == IF value.kind = "referenceValue" THEN value.name[4] ELSE value.n
RECURSIVE CursorOrder(_, _, _, _)
CursorOrder(row, values, order, i) ==
    IF i > Len(values) THEN 0
    ELSE LET c == KeyOrder(RowKey(row, order[i].field), WireKey(values[i]),
                           order[i].direction)
         IN IF c # 0 THEN c ELSE CursorOrder(row, values, order, i + 1)
WithinCursors(row, sq, order) ==
    /\ sq.startAt.present =>
           LET c == CursorOrder(row, sq.startAt.values, order, 1)
           IN IF sq.startAt.before THEN c >= 0 ELSE c > 0
    /\ sq.endAt.present =>
           LET c == CursorOrder(row, sq.endAt.values, order, 1)
           IN IF sq.endAt.before THEN c < 0 ELSE c <= 0
SortedRows(rows, order) ==
    [i \in 1..Cardinality(rows) |->
        CHOOSE r \in rows :
            Cardinality({x \in rows : RowOrder(x, r, order, 1) < 0}) = i - 1]
RunQuery(sq, docs) ==
    LET order == WireOrder(sq)
        sorted == SortedRows({r \in Rows(docs) : WithinCursors(r, sq, order)}, order)
        cut == IF sq.limit = NullLimit THEN sorted
               ELSE SubSeq(sorted, 1, Min(sq.limit, Len(sorted)))
    IN [i \in DOMAIN cut |-> [name |-> DocumentResourceName(cut[i].id), f |-> cut[i].f]]

\* ------------------------------------------------------------------------
Reversed(seq) == [i \in DOMAIN seq |-> seq[Len(seq) + 1 - i]]

\* The docs of Query.get(): one QueryDocumentSnapshot per response, with
\* the path decoded from the document name, reversed with shouldReverse.
DocsOfResponses(responses, shouldReverse) ==
    LET docs == [i \in DOMAIN responses |->
                    [path |-> <<responses[i].name[3], responses[i].name[4]>>,
                     f |-> responses[i].f]]
    IN IF shouldReverse THEN Reversed(docs) ELSE docs

\* query.orderBy(fieldPath, direction), by a caller who names each field
\* once and orders the query before giving cursors, as the service demands.
OrderBy(fieldPath, direction) ==
    /\ qPc # "runQuery"
    /\ Len(orderByClauses) < MaxClauses
    /\ \A i \in DOMAIN orderByClauses : orderByClauses[i].fieldPath # fieldPath
    /\ startAtBound = NullBound /\ endAtBound = NullBound
    /\ orderByClauses' = Append(orderByClauses, OrderClause(fieldPath, direction))
    /\ qPc' = "idle" /\ structuredQuery' = NoStructuredQuery /\ queryDocs' = <<>>
    /\ UNCHANGED <<collectionDocs, limitValue, limitToLastValue, startAtBound, endAtBound>>
    /\ UNCHANGED notQryVars

\* query.limit(limit) and query.limitToLast(limit)
Limit(limit, toLast) ==
    /\ qPc # "runQuery"
    /\ limitValue' = limit
    /\ limitToLastValue' = toLast
    /\ qPc' = "idle" /\ structuredQuery' = NoStructuredQuery /\ queryDocs' = <<>>
    /\ UNCHANGED <<collectionDocs, orderByClauses, startAtBound, endAtBound>>
    /\ UNCHANGED notQryVars

\* The values a caller gives as a cursor: one value, for the first field the
\* query is ordered by: the id of a document for __name__; a number, or by
\* mistake a DocumentReference, for f.
AllCursorArgs ==
    {<<StringValue(id)>> : id \in DocIds} \cup {<<NumberValue(v)>> : v \in FieldValues}
        \cup {<<DocumentReferenceOf(1)>>}
CursorArgs ==
    IF orderByClauses = <<>> \/ orderByClauses[1].fieldPath = "__name__"
    THEN {<<StringValue(id)>> : id \in DocIds}
    ELSE {<<NumberValue(v)>> : v \in FieldValues} \cup {<<DocumentReferenceOf(1)>>}

\* query.startAt(...args) (inclusive) and query.startAfter(...args)
StartAt(inclusive, args) ==
    /\ qPc # "runQuery"
    /\ args \in CursorArgs
    /\ startAtBound' = ParseCursorConstraint(inclusive, args)
    /\ qPc' = "idle" /\ structuredQuery' = NoStructuredQuery /\ queryDocs' = <<>>
    /\ UNCHANGED <<collectionDocs, orderByClauses, limitValue, limitToLastValue, endAtBound>>
    /\ UNCHANGED notQryVars

\* query.endAt(...args) (inclusive) and query.endBefore(...args)
EndAt(inclusive, args) ==
    /\ qPc # "runQuery"
    /\ args \in CursorArgs
    /\ endAtBound' = ParseCursorConstraint(inclusive, args)
    /\ qPc' = "idle" /\ structuredQuery' = NoStructuredQuery /\ queryDocs' = <<>>
    /\ UNCHANGED <<collectionDocs, orderByClauses, limitValue, limitToLastValue, startAtBound>>
    /\ UNCHANGED notQryVars

\* query.get() up to its await: the request is built and sent, or the
\* building throws.
QueryGet ==
    /\ qPc = "idle"
    /\ IF BuildThrows(ThisQuery) # ""
       THEN /\ qPc' = "threw"
            /\ UNCHANGED structuredQuery
       ELSE /\ qPc' = "runQuery"
            /\ structuredQuery' = BuildStructuredQueryRequest(ThisQuery)
    /\ UNCHANGED <<collectionDocs, orderByClauses, limitValue, limitToLastValue,
                   startAtBound, endAtBound, queryDocs>>
    /\ UNCHANGED notQryVars

\* rest.runQuery resolves: the snapshot of get().
RunQueryReturns ==
    /\ qPc = "runQuery"
    /\ qPc' = "returned"
    /\ queryDocs' = DocsOfResponses(RunQuery(structuredQuery, collectionDocs),
                                    ShouldReverse(ThisQuery))
    /\ UNCHANGED <<collectionDocs, orderByClauses, limitValue, limitToLastValue,
                   startAtBound, endAtBound, structuredQuery>>
    /\ UNCHANGED notQryVars

\* rest.runQuery rejects: get() rejects.
RunQueryThrows ==
    /\ qPc = "runQuery"
    /\ qPc' = "threw"
    /\ UNCHANGED <<collectionDocs, orderByClauses, limitValue, limitToLastValue,
                   startAtBound, endAtBound, structuredQuery, queryDocs>>
    /\ UNCHANGED notQryVars

\* A collection reference over the given documents.
QueryInit(docs) ==
    /\ collectionDocs = docs
    /\ orderByClauses = <<>>
    /\ limitValue = NullLimit
    /\ limitToLastValue = FALSE
    /\ startAtBound = NullBound
    /\ endAtBound = NullBound
    /\ qPc = "idle"
    /\ structuredQuery = NoStructuredQuery
    /\ queryDocs = <<>>

QueryNext ==
    \/ \E fieldPath \in OrderFields, direction \in {"asc", "desc"} :
           OrderBy(fieldPath, direction)
    \/ \E limit \in 1..MaxLimit, toLast \in BOOLEAN : Limit(limit, toLast)
    \/ \E inclusive \in BOOLEAN, args \in AllCursorArgs : StartAt(inclusive, args)
    \/ \E inclusive \in BOOLEAN, args \in AllCursorArgs : EndAt(inclusive, args)
    \/ QueryGet
    \/ RunQueryReturns
    \/ RunQueryThrows

\* The state of the functions followed on their own, before any is applied.
FnInit ==
    /\ DocChangesInit /\ FilterInit /\ PartitionInit /\ ValueInit
    /\ QueryInit([id \in DocIds |-> 1])

\* ========================================================================
\* Specifications
\* ========================================================================

\* A BulkWriter used by a caller who makes MaxOps writes, with a gateway that
\* reports at most MaxFailures failures.
Init == TxInit /\ BulkWriterInit(MaxOps, MaxFailures) /\ ListenInit(0) /\ TokenInit(0)
    /\ WriteBatchInit /\ FnInit
Next == BulkWriterNext
Spec == Init /\ [][Next]_vars

\* A BulkWriter whose gateway keeps failing, up to the retry limit and beyond.
RetryInit == TxInit /\ BulkWriterInit(RetryOps, RetryFailures) /\ ListenInit(0) /\ TokenInit(0)
    /\ WriteBatchInit /\ FnInit
RetrySpec == RetryInit /\ [][BulkWriterNext]_vars

\* A BulkWriter whose callbacks return normally, whose batchWrite calls all
\* settle, whose microtasks run and whose timers fire.
Returning(outcomes) == \A i \in DOMAIN outcomes : outcomes[i] # "throw"

\* The gateway answers each write with OK, with a status the default policy
\* retries or with one it does not, or fails the whole call.
LiveStatuses == {StatusOf(0, "OK"), StatusOf(10, "ABORTED"), StatusOf(13, "INTERNAL")}
LiveErrors == {ApiError("UNAVAILABLE")}

BatchWriteSettles ==
    \/ \E s \in BatchInputs(LiveStatuses) :
           \E c \in OutcomesForStatuses(s) : Returning(c) /\ BatchWriteReturns(s, c)
    \/ \E e \in LiveErrors, c \in OutcomesForThrown :
           Returning(c) /\ BatchWriteThrows(e, c)

LiveNext ==
    \/ \E d \in Paths : \E t \in KindsUsed(d) : Enqueue(t, d)
    \/ OnWriteError
    \/ Close
    \/ RunScheduled
    \/ BatchWriteSettles
    \/ BackoffDone
    \/ ProcessQueueResumes

LiveInit == TxInit /\ BulkWriterInit(MaxOps, MaxFailures) /\ ListenInit(0) /\ TokenInit(0)
    /\ WriteBatchInit /\ FnInit
LiveSpec ==
    /\ LiveInit
    /\ [][LiveNext]_vars
    /\ WF_vars(RunScheduled)
    /\ WF_vars(BatchWriteSettles)
    /\ WF_vars(BackoffDone)
    /\ WF_vars(ProcessQueueResumes)

\* A BulkWriter fed more documents than a batch holds: the caller writes
\* document 1 twice and then the documents 2, 3, ... once each; the gateway
\* accepts every write or fails the first write of a batch with ABORTED.
BulkPath(opId) == DocPath(Max(opId - 1, 1))
AllOk == [i \in 1..Len(batch) |-> StatusOf(0, "OK")]
FirstAborted == [i \in 1..Len(batch) |-> IF i = 1 THEN StatusOf(10, "ABORTED")
                                          ELSE StatusOf(0, "OK")]
AllReturn == [i \in 1..Len(batch) |-> "true"]

BulkNext ==
    \/ \E t \in KindsUsed(BulkPath(nextOpId)) : Enqueue(t, BulkPath(nextOpId))
    \/ RunScheduled
    \/ BatchWriteReturns(AllOk, AllReturn)
    \/ BatchWriteReturns(FirstAborted, AllReturn)
    \/ BackoffDone
    \/ ProcessQueueResumes

BulkInit == TxInit /\ BulkWriterInit(BulkOps, BulkFailures) /\ ListenInit(0) /\ TokenInit(0)
    /\ WriteBatchInit /\ FnInit
BulkSpec == BulkInit /\ [][BulkNext]_vars

\* One call of runTransaction.
TxSpecInit == TxInit /\ BulkWriterInit(0, 0) /\ ListenInit(0) /\ TokenInit(0)
    /\ WriteBatchInit /\ FnInit
TxSpec == TxSpecInit /\ [][TxNext]_vars

\* One call of runTransaction in which nothing fails but commits, each with
\* ABORTED: beginTransaction and the reads succeed, updateFn resolves (it
\* catches what its own calls on the handle throw).
AbortNext ==
    \/ \E opt \in MaxAttemptsOptions : RunTransaction(opt)
    \/ BeginReturns
    \/ \E r \in TxRefs : TxGet(r, TRUE)
    \/ BatchGetReturns
    \/ \E k \in WriteKinds, r \in TxRefs : TxWrite(k, r)
    \/ \E k \in WriteKinds : TxWriteThrows(k, TRUE)
    \/ FnReturns
    \/ CommitReturns
    \/ CommitThrows(ApiError("ABORTED"))
    \/ TxSleepDone

AbortInit == TxInit /\ BulkWriterInit(0, 0) /\ ListenInit(0) /\ TokenInit(0)
    /\ WriteBatchInit /\ FnInit
AbortSpec == AbortInit /\ [][AbortNext]_vars

\* One document or query subscription.
ListenSpecInit == TxInit /\ BulkWriterInit(0, 0) /\ ListenInit(MaxFrames) /\ TokenInit(0)
    /\ WriteBatchInit /\ FnInit
ListenSpec == ListenSpecInit /\ [][ListenNext]_vars

\* Callers asking for the access token of one service account.
TokenSpecInit ==
    /\ TxInit /\ BulkWriterInit(0, 0) /\ ListenInit(0) /\ TokenInit(MaxTokenCalls)
    /\ WriteBatchInit /\ FnInit
TokenSpec == TokenSpecInit /\ [][TokenNext]_vars

\* One WriteBatch.
WriteBatchSpecInit ==
    /\ TxInit /\ BulkWriterInit(0, 0) /\ ListenInit(0) /\ TokenInit(0)
    /\ WriteBatchInit /\ FnInit
WriteBatchSpec == WriteBatchSpecInit /\ [][WriteBatchNext]_vars


\* ------------------------------------------------------------------------
\* Properties of runTransaction
\* ------------------------------------------------------------------------
\* the error is an API error whose server status is one of the three the
\* transaction retries on
FailsWithRetryableStatus(error) ==
    /\ error.type = "FirestoreApiError"
    /\ error.apiStatus \in {"ABORTED", "UNAVAILABLE", "DEADLINE_EXCEEDED"}

AllWritesOfRun(writes, run) == \A i \in 1..Len(writes) : writes[i].run = run

\* C2: an attempt that fails with ABORTED, UNAVAILABLE or DEADLINE_EXCEEDED
\* below the attempt cap is followed by a back-off and a new attempt; every
\* attempt has its own beginTransaction call, the running handle carries the
\* id of the latest begin call and only writes of the running invocation, and
\* every batch-get and commit request carries that id and only those writes.
C2_RetryUsesFreshTransaction ==
    /\ (txFailures > 0 /\ txFailures = attempt /\ FailsWithRetryableStatus(lastError)
            /\ attempt < txMaxAttempts) => txPc = "sleep"
    /\ txPc = "sleep" => attempt < txMaxAttempts
    /\ txBeginCalls = attempt
    /\ txPc \in {"fn", "get", "commit"} =>
          /\ tx.transactionId = txBeginCalls
          /\ txFnCalls <= attempt
          /\ AllWritesOfRun(tx.writes, txFnCalls)
    /\ txLastReq.kind \in {"batchGet", "commit"} =>
          /\ txLastReq.transaction = txBeginCalls
          /\ AllWritesOfRun(txLastReq.writes, txFnCalls)

\* a retry whose update function wrote after an earlier attempt wrote and
\* failed has sent its commit
C2_Witness ==
    /\ attempt >= 2
    /\ txLastReq.kind = "commit"
    /\ Len(txLastReq.writes) > 0
    /\ txWritesEver > fnWriteCalls

\* C6 (as stated): a get() on the handle issues a batch-get request exactly
\* when no set, create, update or delete call was made before it in the same
\* invocation of the update function, whether that call returned or threw.
C6_Original ==
    txLastGet.called =>
        (txLastGet.issued <=> txLastGet.writesBefore + txLastGet.throwsBefore = 0)

\* C6 (amended): a get() on the handle issues a batch-get request exactly when
\* no set, create, update or delete call has returned before it in the same
\* invocation of the update function, and throws without a request otherwise;
\* a write call that threw, and the writes of earlier attempts, do not count.
C6_ReadsBeforeWrites ==
    /\ txLastGet.called => (txLastGet.issued <=> txLastGet.writesBefore = 0)
    /\ txPc = "get" => /\ fnWriteCalls = 0
                       /\ txLastReq.kind = "batchGet"
    /\ txPc \in {"fn", "get", "commit"} => (tx.didWrite <=> fnWriteCalls > 0)

\* in a retry that follows an attempt that wrote, a get() after a write of the
\* retry was refused
C6_Witness ==
    /\ attempt >= 2
    /\ txWritesEver > fnWriteCalls
    /\ txLastGet.called
    /\ ~txLastGet.issued
    /\ txLastGet.writesBefore = fnWriteCalls
    /\ fnWriteCalls > 0
    /\ txPc = "fn"

\* C7: once an attempt has failed with anything but ABORTED, UNAVAILABLE or
\* DEADLINE_EXCEEDED, runTransaction is rejected with that very error, and
\* nothing followed the failure: no further beginTransaction call, no further
\* invocation of the update function and no back-off for it.
C7_NonRetryablePropagates ==
    (txFailures > 0 /\ ~FailsWithRetryableStatus(lastError)) =>
        /\ txPc = "rejected"
        /\ txOutcome = [kind |-> "rejected", value |-> 0, error |-> lastError]
        /\ txBeginCalls = txFailures
        /\ txFnCalls <= txFailures
        /\ txSleeps = txFailures - 1

\* the second attempt failed with an ordinary error thrown by the update
\* function while attempts were left
C7_Witness ==
    /\ txPc = "rejected"
    /\ lastError = PlainError
    /\ attempt = 2
    /\ attempt < txMaxAttempts

\* C8: the update function is invoked and beginTransaction is called at most
\* maxAttempts times (5 when the option is left out), and when the attempt
\* numbered maxAttempts fails, runTransaction is rejected with that error.
C8_BoundedAttempts ==
    /\ txPc # "init" => /\ txFnCalls <= Max(txMaxAttempts, 0)
                        /\ txBeginCalls <= Max(txMaxAttempts, 0)
                        /\ txSleeps <= Max(txMaxAttempts - 1, 0)
    /\ (txFailures > 0 /\ txFailures >= txMaxAttempts) =>
           /\ txPc = "rejected"
           /\ txOutcome = [kind |-> "rejected", value |-> 0, error |-> lastError]

\* with the default cap, the fifth attempt failed with a retryable status
C8_Witness ==
    /\ txMaxAttempts = DefaultMaxAttempts
    /\ txFnCalls = DefaultMaxAttempts
    /\ txPc = "rejected"
    /\ FailsWithRetryableStatus(txOutcome.error)

\* ------------------------------------------------------------------------
\* Properties of BulkWriter
\* ------------------------------------------------------------------------
InSeq(q, id) == \E k \in DOMAIN q : q[k] = id
InFlight(id) == bwPc = "batchWrite" /\ InSeq(batch, id)
BatchPaths == {ops[batch[k]].documentRef : k \in DOMAIN batch}

\* C1: of two operations enqueued for the same document path, the later one
\* has not been sent in a batchWrite request as long as the earlier one is
\* neither resolved nor rejected.
C1_SameDocumentInOrder ==
    \A i, j \in DOMAIN ops :
        (i < j /\ ops[i].documentRef = ops[j].documentRef /\ ops[j].sends > 0)
            => ops[i].promise # "pending"

\* C11: at most one batchWrite call is unsettled at any time, it is the one
\* processQueue waits for, and an operation that has not been sent yet is in
\* the queue and not part of the batch in flight, so that it goes out in a
\* later batch.
C11_OneBatchInFlight ==
    /\ inFlight <= 1
    /\ inFlight = 1 <=> bwPc = "batchWrite"
    /\ \A id \in DOMAIN ops :
          ops[id].sends = 0 => InSeq(queue, id) /\ ~InSeq(batch, id)

\* a batch is in flight while the microtask of a later enqueue is due and the
\* operation it enqueued waits in the queue
C11_Witness ==
    /\ inFlight = 1
    /\ scheduled
    /\ \E id \in DOMAIN ops : ops[id].sends = 0 /\ InSeq(queue, id)

\* every operation accepted so far has been resolved or rejected
AllSettled == \A id \in DOMAIN ops : ops[id].promise # "pending"

\* C12: when batchWrite calls settle and callbacks return, every operation
\* that was enqueued is eventually resolved or rejected (a settled promise
\* stays settled, so this is: again and again all accepted operations are
\* settled), and as long as an operation is neither it sits in the queue, in
\* the batch at hand or among the operations waiting for their retry.
C12_EveryOperationSettles ==
    /\ []<>AllSettled
    /\ [](\A id \in DOMAIN ops :
            ops[id].promise = "pending" =>
                InSeq(queue, id) \/ InSeq(batch, id) \/ InSeq(retryQueue, id))

\* an operation was sent again after a failure and is settled, and so is a
\* later operation for the same document
C12_Witness ==
    \E i, j \in DOMAIN ops :
        /\ i < j
        /\ ops[i].documentRef = ops[j].documentRef
        /\ ops[i].failedAttempts >= 1
        /\ ops[i].sends >= 2
        /\ ops[i].promise # "pending"
        /\ ops[j].promise # "pending"

\* C4: every batchWrite request in flight holds between 1 and 20 writes, no
\* two of them for the same document path, and every operation that is not
\* settled and not part of the batch at hand is still in the queue.
C4_BatchWellFormed ==
    /\ bwPc = "batchWrite" =>
          /\ Len(batch) >= 1
          /\ Len(batch) <= 20
          /\ \A k, l \in DOMAIN batch :
                 ops[batch[k]].documentRef = ops[batch[l]].documentRef => k = l
    /\ \A id \in DOMAIN ops :
          ops[id].promise = "pending" =>
              InSeq(queue, id) \/ InSeq(batch, id) \/ InSeq(retryQueue, id)

\* a request of 20 writes is in flight while an operation that was enqueued
\* before some of them waits in the queue because its document is in the batch
C4_Witness ==
    /\ bwPc = "batchWrite"
    /\ Len(batch) = 20
    /\ \E id \in DOMAIN ops :
          /\ InSeq(queue, id)
          /\ ops[id].documentRef \in BatchPaths
          /\ \E k \in DOMAIN batch : id < batch[k]

\* C5: the promise of a flush() or close() call is resolved exactly when no
\* operation enqueued before the call is still unsettled.
C5_FlushResolvesWhenSettled ==
    \A f \in DOMAIN flushes :
        flushes[f].promise = "resolved" <=>
            \A id \in 1..flushes[f].targetId : ops[id].promise # "pending"

\* the retry an operation's latest failure calls for: the registered
\* onWriteError callback returned true, or none is registered and the status
\* was ABORTED or UNAVAILABLE
RetryCalledFor(id) ==
    IF writeErrorListener THEN ops[id].answer = "true"
    ELSE ops[id].failure \in {"ABORTED", "UNAVAILABLE"}

AwaitsResubmission(id) == InSeq(retryQueue, id) \/ InSeq(queue, id) \/ InFlight(id)

\* C9: an operation that has failed between 1 and 9 times and has not
\* succeeded since is pending and waits for (or is in) its resubmission when
\* its latest failure calls for a retry, and is rejected and nowhere in the
\* writer's queues otherwise.
C9_RetryDecision ==
    \A id \in DOMAIN ops :
        (ops[id].failedAttempts >= 1 /\ ops[id].failedAttempts < 10
            /\ ops[id].promise # "resolved") =>
            IF RetryCalledFor(id)
            THEN ops[id].promise = "pending" /\ AwaitsResubmission(id)
            ELSE ops[id].promise = "rejected" /\ ~AwaitsResubmission(id)

\* the canonical code of a status name
FailureCode(name) ==
    CASE name = "ABORTED" -> 10
      [] name = "UNAVAILABLE" -> 14
      [] name = "INTERNAL" -> 13
      [] OTHER -> 0

\* C10: no operation is sent more than 10 times, and an operation that has
\* failed 10 times is rejected with an error that carries its document
\* reference, its kind, the code of the status it failed with and
\* failedAttempts = 10.
C10_TenthFailureRejects ==
    \A id \in DOMAIN ops :
        /\ ops[id].sends <= 10
        /\ ops[id].failedAttempts = 10 =>
              /\ ops[id].promise = "rejected"
              /\ ops[id].error = [code |-> FailureCode(ops[id].failure),
                                  documentRef |-> ops[id].documentRef,
                                  operationType |-> ops[id].operationType,
                                  failedAttempts |-> 10]

\* ------------------------------------------------------------------------
\* Properties of the realtime listeners
\* ------------------------------------------------------------------------
\* C3: the latest snapshot handed to the subscriber was handed over on a
\* CURRENT target change, or on a NO_CHANGE target change that followed a
\* CURRENT; no document change, delete or remove (nor anything else) led to it.
C3_SnapshotOnlyAtSettlePoint ==
    lsDelivered > 0 =>
        \/ lsLastDelivery.trigger = "CURRENT"
        \/ lsLastDelivery.trigger = "NO_CHANGE" /\ lsLastDelivery.currentSeen

\* C13: listener.close() is never called more than once, and once the
\* function returned by onSnapshot has been called on a subscription whose
\* channel was opened and has not closed yet, it has been called exactly once.
C13_ClosedExactlyOnce ==
    /\ lsCloseCalls <= 1
    /\ (lsUnsubCalls >= 1 /\ lsPc = "listening" /\ lsChannel \in {"open", "closing"})
           => lsCloseCalls = 1

\* C14: the latest snapshot handed to the subscriber was not handed over
\* after a channel error (an error frame or a transport error) had been
\* handed to the subscriber's error handler.
C14_NoSnapshotAfterChannelError ==
    lsDelivered > 0 => ~lsLastDelivery.afterError

\* C15: the latest snapshot handed to the subscriber was not handed over
\* after the function returned by onSnapshot had been called.
C15_NoSnapshotAfterUnsubscribe ==
    lsDelivered > 0 => ~lsLastDelivery.cancelled

\* ------------------------------------------------------------------------
\* Properties of the access token cache
\* ------------------------------------------------------------------------
\* C16: at no time do two callers each have a token exchange of their own
\* under way for the same key.
C16_RefreshOnceAndShared ==
    Cardinality({c \in Callers : tkPc[c] = "fetch"}) <= 1

\* ------------------------------------------------------------------------
\* Properties of WriteBatch
\* ------------------------------------------------------------------------
\* The write the gateway is to receive for a call made on the batch.
ExpectedWrite(call) ==
    [kind |-> IF call.method = "delete" THEN "delete" ELSE "update",
     name |-> call.ref,
     currentDocument |-> IF call.method = "create" THEN "exists=false"
                         ELSE IF call.method = "update" THEN "exists=true"
                         ELSE "none"]

\* C19: a step that sends a request sends exactly one, a commit outside any
\* transaction that carries one write for every call made on the batch so
\* far, in call order, with exists=false for create, exists=true for update
\* and no precondition for set and delete; a step that adds a write (or
\* throws adding one) sends nothing.
C19_OneCommitWithAllWrites ==
    [][/\ wbRequests' # wbRequests =>
            /\ Len(wbRequests') = Len(wbRequests) + 1
            /\ SubSeq(wbRequests', 1, Len(wbRequests)) = wbRequests
            /\ LET request == wbRequests'[Len(wbRequests')] IN
               /\ request.kind = "commit"
               /\ request.transaction = 0
               /\ Len(request.writes) = Len(wbAdded)
               /\ \A i \in 1..Len(wbAdded) :
                      request.writes[i] = ExpectedWrite(wbAdded[i])
       /\ (wbAdded' # wbAdded \/ wbThrows' # wbThrows) => wbRequests' = wbRequests
      ]_vars

\* a commit request with three writes has been sent, for a create, an update
\* and a delete or set among others
C19_Witness ==
    \E i \in DOMAIN wbRequests :
        /\ Len(wbRequests[i].writes) = 3
        /\ {wbAdded[j].method : j \in 1..3} \in
               {{"create", "update", "delete"}, {"create", "update", "set"}}

\* ------------------------------------------------------------------------
\* Further properties of runTransaction
\* ------------------------------------------------------------------------
\* C17: only a commit request carries writes; a step hands a commit
\* request to the gateway exactly when updateFn resolves in it, and the
\* request then carries the id handed out by this attempt's beginTransaction
\* and the writes of the calls this invocation made, one for one in call
\* order; a step in which updateFn rejects sends nothing.
C17_OneCommitAfterFn ==
    [][/\ Len(txLastReq'.writes) > 0 => txLastReq'.kind = "commit"
       /\ (txLastReq' # txLastReq /\ txLastReq'.kind = "commit") =>
            /\ txPc = "fn" /\ txPc' = "commit"
            /\ txLastReq'.transaction = txBeginCalls
            /\ Len(txLastReq'.writes) = fnWriteCalls
            /\ \A i \in 1..fnWriteCalls :
                   /\ txLastReq'.writes[i].call = i
                   /\ txLastReq'.writes[i].run = txFnCalls
       /\ (txPc = "fn" /\ txPc' = "commit") =>
            txLastReq' # txLastReq /\ txLastReq'.kind = "commit"
       /\ (txPc = "fn" /\ txPc' \in {"sleep", "rejected"}) => txLastReq' = txLastReq
      ]_vars

\* the second invocation of updateFn has resolved after two writes and its
\* commit is under way
C17_Witness ==
    /\ txPc = "commit"
    /\ txFnCalls = 2
    /\ txLastReq.kind = "commit"
    /\ Len(txLastReq.writes) = 2

\* C18: in a run where nothing fails but commits, with ABORTED, a resolved
\* runTransaction has invoked updateFn once more than commits were aborted,
\* within maxAttempts, and resolves with the value of the last invocation.
C18_ResolvesWithLastInvocation ==
    txPc = "resolved" =>
        /\ txFnCalls = txFailures + 1
        /\ txFnCalls <= txMaxAttempts
        /\ txOutcome.kind = "resolved"
        /\ txOutcome.value = txFnCalls

\* two commits were aborted and the third succeeded
C18_Witness ==
    /\ txPc = "resolved"
    /\ txFailures = 2
    /\ txOutcome.value = 3

\* ------------------------------------------------------------------------
\* Further properties of BulkWriter
\* ------------------------------------------------------------------------
\* C20: no step taken on a closed BulkWriter adds an operation (no new
\* operation, no new id, nothing new among the pending ids, and the queue
\* gains only operations it is handed back for their retry), the writer stays
\* closed, and what a call on it throws is 'BulkWriter has already been
\* closed.'
C20_ClosedAcceptsNothing ==
    [][closed =>
          /\ closed'
          /\ Len(ops') = Len(ops)
          /\ nextOpId' = nextOpId
          /\ pendingOpIds' \subseteq pendingOpIds
          /\ \A id \in DOMAIN ops :
                 InSeq(queue', id) => InSeq(queue, id) \/ InSeq(batch, id)
          /\ bwCallThrew' # bwCallThrew =>
                 bwCallThrew' = "BulkWriter has already been closed."
      ]_vars

\* a call on the closed BulkWriter has thrown while an operation accepted
\* before close() was still pending
C20_Witness ==
    /\ closed
    /\ bwCallThrew = "BulkWriter has already been closed."
    /\ \E id \in DOMAIN ops : ops[id].promise = "pending"

\* C27: an operation whose promise is resolved was resolved on a status
\* entry of its own that was present and reported OK.
C27_ResolvedOnOwnOkStatus ==
    \A id \in DOMAIN ops : ops[id].promise = "resolved" => ops[id].resolvedOn = "OK"

\* C30: after a callback has thrown, every operation still pending, other
\* than the one the callback threw for, is in the queue, in the batch at
\* hand or waiting for its retry, and a pending flush() waits for an
\* operation that is still pending.
C30_CallbackThrowStrandsNothing ==
    callbackThrew =>
        /\ \A id \in DOMAIN ops :
               (ops[id].promise = "pending" /\ ops[id].answer # "throw") =>
                   InSeq(queue, id) \/ InSeq(batch, id) \/ InSeq(retryQueue, id)
        /\ \A f \in DOMAIN flushes :
               flushes[f].promise = "pending" =>
                   \E id \in DOMAIN ops :
                       id <= flushes[f].targetId /\ ops[id].promise = "pending"

\* C29: the promise of an operation is settled at most once, as resolved or
\* as rejected; a settled operation is in no queue, keeps its outcome and is
\* not part of any later batchWrite request.
C29_SettledOnceNeverResent ==
    /\ [](\A id \in DOMAIN ops :
            /\ ops[id].settleCalls <= 1
            /\ (ops[id].promise = "pending") <=> (ops[id].settleCalls = 0)
            /\ ops[id].promise # "pending" =>
                   ~InSeq(queue, id) /\ ~InSeq(retryQueue, id))
    /\ [][\A id \in DOMAIN ops :
            ops[id].promise # "pending" =>
                /\ ops'[id].promise = ops[id].promise
                /\ ops'[id].settleCalls = ops[id].settleCalls
                /\ ops'[id].sends = ops[id].sends]_vars

\* one operation resolved by its second request, after another of its batch
\* had been settled by the first
C29_Witness ==
    \E id, other \in DOMAIN ops :
        /\ id # other
        /\ ops[id].promise = "resolved" /\ ops[id].sends = 2
        /\ ops[other].promise # "pending" /\ ops[other].sends = 1

\* C28: the result fetches of one query subscription never overlap; a
\* notification that arrives during a fetch is queued, and the queue is
\* emptied only by starting one further fetch when the fetch in flight is
\* over; while the subscription is not cancelled and no fetch is in flight,
\* the last fetch was begun after the last notification, and when it
\* succeeded the last snapshot delivered is its result.
C28_RefreshesCoalesced ==
    /\ [](/\ qObs.inFlight <= 1
          /\ refreshQueued => qGet
          /\ (lsKind = "query" /\ ~cancelled /\ ~qGet) => ~qObs.notifiedSinceBegin
          /\ (lsKind = "query" /\ ~cancelled /\ ~qGet /\ qObs.lastRead = "delivered")
                 => qObs.delivered = "fresh")
    /\ [][(refreshQueued /\ ~refreshQueued' /\ ~cancelled) =>
              /\ qGet' /\ qObs'.inFlight = 1
              /\ qObs'.lastRead # "none" /\ ~qObs'.notifiedSinceBegin]_vars

\* C28 as stated: once no fetch is in flight, the last snapshot delivered to
\* a subscription that is not cancelled comes from a read begun after the
\* last notification.
C28_Original ==
    (lsKind = "query" /\ ~cancelled /\ ~qGet /\ lsDelivered > 0) => qObs.delivered = "fresh"

\* a notification came during the first fetch, and the fetch queued for it
\* has delivered the second snapshot
C28_Witness ==
    /\ lsKind = "query" /\ ~cancelled /\ ~qGet
    /\ lsDelivered = 2 /\ lsLastDelivery.trigger = "queued"
    /\ qObs.lastRead = "delivered" /\ qObs.delivered = "fresh"

\* A query subscription whose refreshes deliver one result after another.
DocChangesSpecInit == TxInit /\ BulkWriterInit(0, 0) /\ ListenInit(0) /\ TokenInit(0)
    /\ WriteBatchInit /\ FnInit
DocChangesSpec == DocChangesSpecInit /\ [][DocChangesNext]_vars

\* C21: the change list of a snapshot holds, for every document, exactly one
\* 'added' change when only the new result has it, exactly one 'modified'
\* change when both results have it and its position or update time differs,
\* exactly one 'removed' change when only the old result has it, and no
\* change otherwise; each change carries the document's old and new index.
ChangesFor(path) == {i \in DOMAIN dcChanges : dcChanges[i].doc.path = path}
IndexIn(docs, path) ==
    IF \E i \in DOMAIN docs : docs[i].path = path
    THEN (CHOOSE i \in DOMAIN docs : docs[i].path = path) - 1
    ELSE -1
DocIn(docs, path) == docs[IndexIn(docs, path) + 1]
C21_OneChangePerChangedDoc ==
    ~dcDocs.isNull =>
        LET old == dcPrevious.docs IN
        \A path \in DocPaths :
            LET was == IndexIn(old, path)
                is == IndexIn(dcDocs.docs, path)
                expected ==
                    IF was = -1 /\ is = -1 THEN "none"
                    ELSE IF was = -1 THEN "added"
                    ELSE IF is = -1 THEN "removed"
                    ELSE IF was # is \/ DocIn(old, path).updateTime # DocIn(dcDocs.docs, path).updateTime
                    THEN "modified"
                    ELSE "none"
            IN IF expected = "none" THEN ChangesFor(path) = {}
               ELSE /\ Cardinality(ChangesFor(path)) = 1
                    /\ \A i \in ChangesFor(path) :
                           /\ dcChanges[i].type = expected
                           /\ dcChanges[i].oldIndex = was
                           /\ dcChanges[i].newIndex = is
                           /\ dcChanges[i].doc =
                                  IF is # -1 THEN DocIn(dcDocs.docs, path) ELSE DocIn(old, path)

\* after A and B, A comes back with a later update time: one 'modified'
\* change for A and none for B
C21_Witness ==
    /\ ~dcPrevious.isNull /\ ~dcDocs.isNull
    /\ Len(dcPrevious.docs) = 2 /\ Len(dcDocs.docs) = 2
    /\ dcPrevious.docs[1].path = "A" /\ dcPrevious.docs[2].path = "B"
    /\ dcDocs.docs[1].path = "A" /\ dcDocs.docs[2] = dcPrevious.docs[2]
    /\ dcDocs.docs[1].updateTime # dcPrevious.docs[1].updateTime
    /\ Len(dcChanges) = 1 /\ dcChanges[1].type = "modified" /\ dcChanges[1].doc.path = "A"

\* A caller who builds filters and narrows a collection query with them.
FilterSpecInit == TxInit /\ BulkWriterInit(0, 0) /\ ListenInit(0) /\ TokenInit(0)
    /\ WriteBatchInit /\ FnInit
FilterSpec == FilterSpecInit /\ [][FilterNext]_vars

\* C23: in every filter tree built by Filter.and, Filter.or and repeated
\* where() calls, no AND node has an AND node as a child and no OR node has
\* an OR node as a child; where(Filter.or(Filter.and(a, b), c)) followed by
\* where(d) leaves the query with AND[OR[AND[a, b], c], d].
RECURSIVE NoSameOpChild(_)
NoSameOpChild(node) ==
    \A i \in DOMAIN node.filters :
        /\ ~(node.filters[i].kind = "composite" /\ node.filters[i].op = node.op)
        /\ NoSameOpChild(node.filters[i])
OrOfAndExample ==
    CompositeNode("OR", <<CompositeNode("AND", <<FieldNode(1), FieldNode(2)>>), FieldNode(3)>>)
C23_NoNestedSameOperator ==
    /\ NoSameOpChild(qWhereFilter)
    /\ \A i \in DOMAIN fltPool : NoSameOpChild(fltPool[i])
    /\ qWhereCalls = <<OrOfAndExample, FieldNode(4)>> =>
           qWhereFilter = CompositeNode("AND", <<OrOfAndExample, FieldNode(4)>>)

\* where(Filter.or(Filter.and(a, b), c)) and where(d) have been called
C23_Witness ==
    /\ qWhereCalls = <<OrOfAndExample, FieldNode(4)>>
    /\ qWhereFilter = CompositeNode("AND", <<OrOfAndExample, FieldNode(4)>>)

\* same-operator composites were handed to Filter.and and to where() and
\* have been flattened
C23_WitnessFlattened ==
    /\ Len(qWhereCalls) = 2
    /\ qWhereCalls[1].kind = "composite" /\ qWhereCalls[1].op = "AND"
    /\ qWhereCalls[2].kind = "composite" /\ qWhereCalls[2].op = "AND"
    /\ Len(qWhereFilter.filters) = 4

\* A consumer who iterates the partitions of a query to the end.
PartitionSpecInit == TxInit /\ BulkWriterInit(0, 0) /\ ListenInit(0) /\ TokenInit(0)
    /\ WriteBatchInit /\ FnInit
PartitionSpec == PartitionSpecInit /\ [][PartitionNext]_vars

ValueSpecInit == TxInit /\ BulkWriterInit(0, 0) /\ ListenInit(0) /\ TokenInit(0)
    /\ WriteBatchInit /\ FnInit
ValueSpec == ValueSpecInit /\ [][ValueNext]_vars

\* C26: encoding a value that is a callable, or holds one in a map or an
\* array at any depth, throws an error instead of returning a Firestore
\* value.
RECURSIVE HoldsFunction(_)
HoldsFunction(value) ==
    \/ value.type = "function"
    \/ \E i \in DOMAIN value.items : HoldsFunction(value.items[i])
C26_CallableThrows ==
    (valResult # NoResult /\ HoldsFunction(valInput)) => valResult.kind = "throws"

\* A caller who builds a query over a collection of MaxRows documents and
\* reads it.
QuerySpecInit == TxInit /\ BulkWriterInit(0, 0) /\ ListenInit(0) /\ TokenInit(0)
    /\ WriteBatchInit /\ DocChangesInit /\ FilterInit /\ PartitionInit /\ ValueInit
    /\ \E docs \in [DocIds -> FieldValues] : QueryInit(docs)
QuerySpec == QuerySpecInit /\ [][QueryNext]_vars

\* what get() returns for query q over the documents docs
GetOf(q, docs) ==
    DocsOfResponses(RunQuery(BuildStructuredQueryRequest(q), docs), ShouldReverse(q))
\* q without its limitToLast
ForwardQuery(q) == [q EXCEPT !.limitValue = NullLimit, !.limitToLastValue = FALSE]
LastRows(rows, k) == SubSeq(rows, Len(rows) - Min(k, Len(rows)) + 1, Len(rows))
\* the direction on the wire of a clause of direction d, reversed or not
WireDirection(d, reversed) ==
    IF (d = "desc") = reversed THEN "ASCENDING" ELSE "DESCENDING"

\* C22: the docs get() returns for a query with limitToLast(k) are the
\* last k docs, in their order, of what get() returns for the same query
\* without limitToLast; the request has every direction of the ordering
\* reversed, the end bound as its startAt and the start bound as its endAt.
C22_LimitToLastIsTailOfForward ==
    (qPc = "returned" /\ ShouldReverse(ThisQuery)) =>
        /\ queryDocs = LastRows(GetOf(ForwardQuery(ThisQuery), collectionDocs), limitValue)
        /\ LET clauses == EffectiveOrderBy(ThisQuery) IN
           /\ Len(structuredQuery.orderBy) = Len(clauses)
           /\ \A i \in DOMAIN clauses :
                  /\ structuredQuery.orderBy[i].field = clauses[i].fieldPath
                  /\ structuredQuery.orderBy[i].direction =
                         WireDirection(clauses[i].direction, TRUE)
        /\ structuredQuery.startAt.present = (endAtBound # NullBound)
        /\ structuredQuery.startAt.present =>
               /\ structuredQuery.startAt.before = endAtBound.inclusive
               /\ \A i \in DOMAIN endAtBound.values :
                      WireKey(structuredQuery.startAt.values[i]) = endAtBound.values[i].n
        /\ structuredQuery.endAt.present = (startAtBound # NullBound)
        /\ structuredQuery.endAt.present =>
               /\ structuredQuery.endAt.before = ~startAtBound.inclusive
               /\ \A i \in DOMAIN startAtBound.values :
                      WireKey(structuredQuery.endAt.values[i]) = startAtBound.values[i].n

\* orderBy(f).startAt(1).endAt(2).limitToLast(2) over three documents in
\* range: the two docs returned are not the first two
C22_Witness ==
    /\ qPc = "returned" /\ limitToLastValue /\ limitValue = 2
    /\ orderByClauses = <<OrderClause("f", "asc")>>
    /\ startAtBound = ParseCursorConstraint(TRUE, <<NumberValue(1)>>)
    /\ endAtBound = ParseCursorConstraint(TRUE, <<NumberValue(2)>>)
    /\ Len(queryDocs) = 2
    /\ queryDocs # SubSeq(GetOf(ForwardQuery(ThisQuery), collectionDocs), 1, 2)
    /\ queryDocs[1].f <= queryDocs[2].f

\* the orderBy of the request for explicit clauses, reversed or not
WireOrderBy(clauses, reversed) ==
    [i \in DOMAIN clauses |->
        [field |-> clauses[i].fieldPath,
         direction |-> WireDirection(clauses[i].direction, reversed)]]

\* C24: the request of a query with limitToLast or a cursor has an ordering
\* that is not empty and has a __name__ clause: __name__ ascending alone
\* when no ordering was given; the given clauses as they are when one of
\* them orders by __name__; otherwise the given clauses and, after them, a
\* __name__ clause in the direction of the last; with limitToLast every
\* direction is then the opposite one.
C24_NameOrderingWhenNeeded ==
    (qPc \in {"runQuery", "returned"} /\ NeedsOrdering(ThisQuery)) =>
        LET reversed == ShouldReverse(ThisQuery)
            given == orderByClauses
        IN /\ structuredQuery.orderBy # <<>>
           /\ \E i \in DOMAIN structuredQuery.orderBy :
                  structuredQuery.orderBy[i].field = "__name__"
           /\ structuredQuery.orderBy =
                  IF given = <<>>
                  THEN WireOrderBy(<<OrderClause("__name__", "asc")>>, reversed)
                  ELSE IF \E i \in DOMAIN given : given[i].fieldPath = "__name__"
                  THEN WireOrderBy(given, reversed)
                  ELSE WireOrderBy(Append(given, OrderClause("__name__",
                                              given[Len(given)].direction)), reversed)

\* C24 as stated: the ordering of such a request ends with __name__, which
\* is appended unless the given ordering already ends on it.
C24_Original ==
    (qPc \in {"runQuery", "returned"} /\ NeedsOrdering(ThisQuery)) =>
        LET reversed == ShouldReverse(ThisQuery)
            given == orderByClauses
            wire == structuredQuery.orderBy
        IN /\ wire # <<>>
           /\ wire[Len(wire)].field = "__name__"
           /\ wire =
                  IF given = <<>>
                  THEN WireOrderBy(<<OrderClause("__name__", "asc")>>, reversed)
                  ELSE IF given[Len(given)].fieldPath = "__name__"
                  THEN WireOrderBy(given, reversed)
                  ELSE WireOrderBy(Append(given, OrderClause("__name__",
                                              given[Len(given)].direction)), reversed)

\* orderBy(f, 'desc').endBefore(2).get(): f and then __name__, both descending
C24_Witness ==
    /\ qPc = "returned" /\ ~limitToLastValue
    /\ orderByClauses = <<OrderClause("f", "desc")>>
    /\ endAtBound = ParseCursorConstraint(FALSE, <<NumberValue(2)>>)
    /\ structuredQuery.orderBy = <<[field |-> "f", direction |-> "DESCENDING"],
                                   [field |-> "__name__", direction |-> "DESCENDING"]>>
    /\ structuredQuery.endAt.present /\ structuredQuery.endAt.before

\* startAt('doc1') with no ordering given: __name__ ascending alone
C24_WitnessImplicit ==
    /\ qPc = "runQuery" /\ orderByClauses = <<>> /\ startAtBound # NullBound
    /\ structuredQuery.orderBy = <<[field |-> "__name__", direction |-> "ASCENDING"]>>

====
